---- MODULE Spec2Model ----
(***************************************************************************)
(* Production Readiness Analyzer: the Express proxy (three variants of the *)
(* server file and the serverless handler) and the React App's report      *)
(* store.                                                                  *)
(*                                                                         *)
(* Text is a sequence of atoms.  An atom is a word, a punctuation mark or  *)
(* a single decimal digit, so that String.prototype.includes, substring,   *)
(* trim and the sanitising regular expressions can be computed on it.  The *)
(* atoms of the API key are the secret atoms "s1".."s6"; no other text of  *)
(* the model uses them.                                                    *)
(***************************************************************************)
EXTENDS Integers, Sequences, FiniteSets

\* ------------------------------------------------------------------------
\* Bounds of the model
\* ------------------------------------------------------------------------

\* Longest report list the App is driven to.
MaxReports == 3

\* Largest value the browser clock (Date.now()) is driven to.
MaxClock == 2

\* Most handleAnalyze calls the model lets wait at once.
MaxInflight == 2

\* ------------------------------------------------------------------------
\* Text helpers
\* ------------------------------------------------------------------------

Min(a, b) == IF a < b THEN a ELSE b

\* String.prototype.includes on atoms: needle is a contiguous part of text.
Includes(text, needle) ==
  \E i \in 0..(Len(text) - Len(needle)) :
    SubSeq(text, i + 1, i + Len(needle)) = needle

DigitAtoms == <<"0", "1", "2", "3", "4", "5", "6", "7", "8", "9">>

\* Template-literal interpolation of a non-negative number.
RECURSIVE DecimalText(_)
DecimalText(n) ==
  IF n < 10 THEN <<DigitAtoms[n + 1]>>
  ELSE DecimalText(n \div 10) \o <<DigitAtoms[(n % 10) + 1]>>

WsAtoms == {" ", "\n"}

\* String.prototype.trim
RECURSIVE TrimLeft(_)
TrimLeft(t) ==
  IF t # <<>> /\ Head(t) \in WsAtoms THEN TrimLeft(Tail(t)) ELSE t

RECURSIVE TrimRight(_)
TrimRight(t) ==
  IF t # <<>> /\ t[Len(t)] \in WsAtoms
  THEN TrimRight(SubSeq(t, 1, Len(t) - 1))
  ELSE t

Trim(t) == TrimRight(TrimLeft(t))

\* An optional JavaScript value: undefined, or a value.
Some(x) == [def |-> TRUE, v |-> x]
None == [def |-> FALSE, v |-> <<>>]

\* !x for an optional string or array-of-atoms value used as a condition:
\* undefined and '' are falsy.
Falsy(x) == ~x.def \/ x.v = <<>>

\* ------------------------------------------------------------------------
\* Server configuration: process.env
\* ------------------------------------------------------------------------

\* The value of the API key when one is configured.
ApiKeyValue == <<"s1", "s2", "s3", "s4", "s5", "s6">>

SecretAtoms == {ApiKeyValue[i] : i \in 1..Len(ApiKeyValue)}

EnvValues == {None, Some(ApiKeyValue)}

Envs ==
  [GEMINI_API_KEY : EnvValues, VITE_GEMINI_API_KEY : EnvValues,
   GOOGLE_AI_API_KEY : EnvValues, NODE_ENV : {"development", "production"}]

\* a || b on optional strings
OrElse(a, b) == IF Falsy(a) THEN b ELSE a

\* const GENAI_API_KEY = process.env.GEMINI_API_KEY || process.env.VITE_GEMINI_API_KEY
GENAI_API_KEY(e) == OrElse(e.GEMINI_API_KEY, e.VITE_GEMINI_API_KEY)

\* `...generateContent?key=${key}` : an undefined key interpolates as "undefined"
KeyInUrl(key) == IF key.def THEN key.v ELSE <<"undefined">>

GeminiUrl(key) ==
  <<"https://generativelanguage.googleapis.com/v1beta/",
    "models/gemini-3-pro-preview", ":generateContent?key=">> \o KeyInUrl(key)

\* ------------------------------------------------------------------------
\* JSON texts of the model and JSON.parse
\* ------------------------------------------------------------------------

\* The members a model reply is built from.
MemberAtoms == {"\"summary\":\"x\"", "\"overallStatus\":\"ready\""}

\* JSON.parse, for the texts of the model: an object of members.  White
\* space between tokens is insignificant.  Any other text is a SyntaxError.
StripWs(t) == SelectSeq(t, LAMBDA a : a \notin WsAtoms)

IsObjectText(t) ==
  LET s == StripWs(t)
      n == Len(s)
  IN /\ n >= 2
     /\ s[1] = "{"
     /\ s[n] = "}"
     /\ \/ n = 2
        \/ /\ n % 2 = 1
           /\ \A i \in 2..(n - 1) :
                IF i % 2 = 0 THEN s[i] \in MemberAtoms ELSE s[i] = ","

\* The parsed value: the members of the object, in order.
ObjectMembers(t) == SelectSeq(StripWs(t), LAMBDA a : a \in MemberAtoms)

\* SyntaxError.message.  V8 quotes a piece of the source text in the
\* message on recent runtimes and none on older ones; ctx is the number of
\* atoms it quotes.
ParseErrorMessage(t, ctx) ==
  IF t = <<>> THEN <<"Unexpected", "end", "of", "JSON", "input">>
  ELSE <<"Unexpected", "token">> \o SubSeq(t, 1, Min(ctx, Len(t)))

JSONParse(t, ctx) ==
  IF IsObjectText(t)
  THEN [ok |-> TRUE, members |-> ObjectMembers(t), message |-> <<>>]
  ELSE [ok |-> FALSE, members |-> <<>>, message |-> ParseErrorMessage(t, ctx)]

\* ------------------------------------------------------------------------
\* The provider (Gemini generateContent) as seen through fetch
\* ------------------------------------------------------------------------

\* Atoms V8 quotes in a SyntaxError message on recent runtimes.
ParseContextLen == 2

\* MAX_CHARS of createSafePrompt, 30000 characters in the source, in atoms
\* of the texts here.
MAX_CHARS == 4

\* The Markdown code fence marker, three backticks.
Fence == "[fence]"

PlainJson == <<"{", "\"summary\":\"x\"", ",", "\"overallStatus\":\"ready\"", "}">>

FencedJson == <<Fence, "json", "\n">> \o PlainJson \o <<"\n", Fence>>

BareFencedJson == <<Fence, "\n">> \o PlainJson \o <<"\n", Fence>>

Prose == <<"Sorry", ",", "I", "cannot", "analyse", "this">>

ProseThenJson == <<"Here", "is", "the", "report", ":", " ">> \o PlainJson

\* data.candidates?.[0]?.content?.parts?.[0]?.text : undefined, '' or a text
CandidateTexts ==
  {None, Some(<<>>), Some(PlainJson), Some(FencedJson), Some(BareFencedJson),
   Some(Prose), Some(ProseThenJson)}

\* The message member of the provider's error object.
ProviderErrorMessages == {"Resource has been exhausted", "API key not valid"}

ErrorStatuses == {400, 404, 429, 500}

NoReply ==
  [kind |-> "none", status |-> 0, bodyOk |-> FALSE, errMsg |-> "",
   text |-> None]

\* fetch rejects (DNS failure, connection refused, ...).
NetworkError == [NoReply EXCEPT !.kind = "network"]

HttpOk(bodyOk, text) ==
  [kind |-> "http", status |-> 200, bodyOk |-> bodyOk, errMsg |-> "",
   text |-> text]

HttpError(status, bodyOk, msg) ==
  [kind |-> "http", status |-> status, bodyOk |-> bodyOk, errMsg |-> msg,
   text |-> None]

Replies ==
  {NetworkError}
    \cup {HttpOk(TRUE, t) : t \in CandidateTexts}
    \cup {HttpOk(FALSE, None)}
    \cup {HttpError(s, TRUE, m) : s \in ErrorStatuses, m \in ProviderErrorMessages}
    \cup {HttpError(s, FALSE, "") : s \in ErrorStatuses}

\* The provider's error object, {"code":<status>,"message":"..."}, serialised.
ProviderErrorObject(reply) ==
  <<"{", "\"code\":">> \o DecimalText(reply.status)
    \o <<",", "\"message\":", reply.errMsg, "}">>

\* JSON.stringify(errorData), errorData = await response.json().catch(() => ({}))
StringifyErrorData(reply) ==
  IF reply.bodyOk
  THEN <<"{", "\"error\":">> \o ProviderErrorObject(reply) \o <<"}">>
  ELSE <<"{", "}">>

\* TypeError.message of a rejected fetch.
FetchFailedMessage == <<"fetch", "failed">>

\* new Error(`Gemini API error: ${response.status} ${JSON.stringify(errorData)}`)
GeminiApiErrorMessage(reply) ==
  <<"Gemini", "API", "error:">> \o DecimalText(reply.status)
    \o StringifyErrorData(reply)

\* ------------------------------------------------------------------------
\* Response sanitisation
\* ------------------------------------------------------------------------

\* .replace(/```json\s*/g, '') : every fence marker followed by json, with
\* the white space after it
RECURSIVE StripJsonFences(_)
StripJsonFences(t) ==
  IF t = <<>> THEN <<>>
  ELSE IF Len(t) >= 2 /\ t[1] = Fence /\ t[2] = "json"
       THEN StripJsonFences(TrimLeft(SubSeq(t, 3, Len(t))))
       ELSE <<Head(t)>> \o StripJsonFences(Tail(t))

\* .replace(/```\s*$/g, '') : a fence marker at the end of the text, with the
\* white space after it
StripTrailingFence(t) ==
  LET r == TrimRight(t)
  IN IF r # <<>> /\ r[Len(r)] = Fence THEN SubSeq(r, 1, Len(r) - 1) ELSE t

\* responseText.replace(/```json\s*/g, '').replace(/```\s*$/g, '').trim()
CleanText(t) == Trim(StripTrailingFence(StripJsonFences(t)))

\* responseText.match(/\{[\s\S]*\}/) : from the first { to the last }
ExtractBraces(t) ==
  LET opens == {i \in 1..Len(t) : t[i] = "{"}
      closes == {i \in 1..Len(t) : t[i] = "}"}
  IN IF opens = {} \/ closes = {} THEN None
     ELSE LET first == CHOOSE i \in opens : \A j \in opens : i <= j
              last == CHOOSE i \in closes : \A j \in closes : j <= i
          IN IF first < last THEN Some(SubSeq(t, first, last)) ELSE None

\* ------------------------------------------------------------------------
\* Requests, responses and what a handler leaves behind
\* ------------------------------------------------------------------------

\* analysisData: absent, or a bag whose array members may be absent.
NoBag == [def |-> FALSE, languages |-> None, fileStructure |-> None]

Bag(languages, fileStructure) ==
  [def |-> TRUE, languages |-> languages, fileStructure |-> fileStructure]

Bags ==
  {NoBag, Bag(None, None), Bag(Some(<<"javascript">>), None),
   Bag(Some(<<>>), Some(<<>>)),
   Bag(Some(<<"javascript">>), Some(<<"README.md">>)),
   Bag(Some(<<"javascript">>),
       Some(<<"README.md", "package.json", "src", "tests">>))}

\* A bag as src/lib/analyzer.ts sends it: every array member present.
FullBag(b) == b.def /\ b.languages.def /\ b.fileStructure.def

OwnerValues == {None, Some(<<>>), Some(<<"test">>)}
RepoValues == {None, Some(<<>>), Some(<<"repo">>)}

\* req.method and req.body.  hasBody is FALSE when express.json() parsed no
\* body: Express 5 then leaves req.body undefined.
NoRequest ==
  [method |-> "POST", hasBody |-> FALSE, owner |-> None, repo |-> None,
   analysisData |-> NoBag, debugData |-> None, prompt |-> None]

AnalyzeRequests ==
  {NoRequest}
    \cup {[NoRequest EXCEPT !.hasBody = TRUE, !.owner = o, !.repo = r,
                            !.analysisData = b] :
            o \in OwnerValues, r \in RepoValues, b \in Bags}

NoData == [kind |-> "none", members |-> <<>>, raw |-> <<>>, error |-> <<>>]

\* The response: its status and the members of its JSON body.  keys is the
\* set of members the serialised body has (res.json drops undefined ones).
NoResponse ==
  [status |-> 0, keys |-> {}, error |-> <<>>, detailsMessage |-> <<>>,
   detailsType |-> "", data |-> NoData, text |-> None, message |-> <<>>]

Outcome(response, log, sent) ==
  [response |-> response, log |-> log, sent |-> sent]

\* fetch(url, {method: 'POST', body: JSON.stringify({contents: [{parts: [{text: prompt}]}]})})
Outbound(key, prompt) == [url |-> GeminiUrl(key), prompt |-> prompt]

\* Two more lines written to the log.
Logged2(logged, line1, line2) == Append(Append(logged, line1), line2)

\* array.join(sep) of an array of atoms
RECURSIVE Join(_, _)
Join(a, sep) ==
  IF a = <<>> THEN <<>>
  ELSE IF Len(a) = 1 THEN a
  ELSE <<Head(a), sep>> \o Join(Tail(a), sep)

BuildOk(prompt) == [ok |-> TRUE, prompt |-> prompt, message |-> <<>>]
BuildThrows(message) == [ok |-> FALSE, prompt |-> <<>>, message |-> message]

\* TypeError.message of a member read on undefined.
CannotRead(member) ==
  <<"Cannot", "read", "properties", "of", "undefined", "(reading", member, ")">>

\* The text of a template placeholder: x || fallback
TextOr(t, fallback) == IF t = <<>> THEN fallback ELSE t

\* buildAnalysisPrompt of the current server file: it reads
\* analysisData.languages.join and analysisData.fileStructure.join, not
\* those of data = analysisData || {}.
BuildAnalysisPromptIndex(owner, repo, analysisData) ==
  IF ~analysisData.def THEN BuildThrows(CannotRead("languages"))
  ELSE IF ~analysisData.languages.def THEN BuildThrows(CannotRead("join"))
  ELSE IF ~analysisData.fileStructure.def THEN BuildThrows(CannotRead("join"))
  ELSE BuildOk(<<"owner:">> \o owner.v \o <<"repo:">> \o repo.v
                 \o <<"languages:">>
                 \o TextOr(Join(analysisData.languages.v, ", "), <<"not specified">>)
                 \o <<"files:">> \o Join(analysisData.fileStructure.v, "\n"))

\* buildAnalysisPrompt of the earlier server file: (data.languages || []).join
BuildAnalysisPromptLegacy(owner, repo, analysisData) ==
  LET languages == IF analysisData.def /\ analysisData.languages.def
                   THEN analysisData.languages.v ELSE <<>>
  IN BuildOk(<<"owner:">> \o owner.v \o <<"repo:">> \o repo.v
               \o <<"languages:">>
               \o TextOr(Join(languages, ", "), <<"not specified">>))

\* ------------------------------------------------------------------------
\* State of the proxy
\* ------------------------------------------------------------------------

VARIABLES
  env,       \* process.env, read when the server file is loaded
  handler,   \* the handler that served the request at hand, or "idle"
  request,   \* the request it served
  reply,     \* what the provider answers to a call made for this request
  sent,      \* the calls it made to the provider
  response,  \* the response it gave
  log        \* the lines it wrote with console.log, .warn and .error

proxyVars == <<env, handler, request, reply, sent, response, log>>

\* ------------------------------------------------------------------------
\* POST /api/analyze of the Express server (both server files)
\* ------------------------------------------------------------------------

\* The Arabic message of the catch block: "analysis of the repository
\* failed, an internal error occurred".
AnalyzeFailedLocalized == <<"[ar] analysis of the repository failed, internal error">>

MissingFieldsError == <<"Missing required fields: owner and repo are required">>

KeyMissingError ==
  <<"Configuration error: Analysis service is not available (KEY_MISSING_RUNTIME_CHECK).">>

EmptyResponseMessage == <<"Empty response received from Gemini API">>

\* TypeError.message of destructuring an undefined req.body.
CannotDestructure(member) ==
  <<"Cannot", "destructure", "property", member, "of", "req.body", "as", "it",
    "is", "undefined">>

\* What response.json() is given when the body is not JSON.
UnparsableBody == <<"<html>", "Bad", "Gateway", "</html>">>

\* console.log('DEBUG: Handler GENAI_API_KEY status:', ..., 'Length:', ...)
DebugKeyStatusLine(key) ==
  <<"DEBUG: Handler GENAI_API_KEY status:",
    IF Falsy(key) THEN "Missing" ELSE "Present", "Length:">>
    \o DecimalText(IF Falsy(key) THEN 0 ELSE Len(key.v))

\* errorMessage.includes('Google') || .includes('400') || .includes('404')
IsGoogleError(errorMessage) ==
  \/ Includes(errorMessage, <<"Google">>)
  \/ Includes(errorMessage, <<"4", "0", "0">>)
  \/ Includes(errorMessage, <<"4", "0", "4">>)

\* The catch block of POST /api/analyze.
AnalyzeCatch(message, logged, calls) ==
  LET errorMessage == TextOr(message, <<"Unknown error occurred">>)
  IN Outcome(
       [NoResponse EXCEPT
          !.status = 500,
          !.keys = {"error", "details", "meta"},
          !.error = AnalyzeFailedLocalized,
          !.detailsMessage = errorMessage,
          !.detailsType = IF IsGoogleError(errorMessage)
                          THEN "AI_SERVICE_ERROR" ELSE "INTERNAL_ERROR"],
       Append(logged, <<"Analysis Fatal Error:">> \o message),
       calls)

\* The handler of POST /api/analyze; built is what buildAnalysisPrompt
\* returns or throws for the request, ctx the atoms a SyntaxError quotes.
AnalyzeHandler(built, req, rep, key, ctx) ==
  IF ~req.hasBody THEN AnalyzeCatch(CannotDestructure("owner"), <<>>, <<>>)
  ELSE IF Falsy(req.owner) \/ Falsy(req.repo)
  THEN Outcome([NoResponse EXCEPT !.status = 400, !.keys = {"error"},
                                  !.error = MissingFieldsError],
               <<>>, <<>>)
  ELSE
    LET log1 == <<DebugKeyStatusLine(key)>>
    IN IF Falsy(key)
       THEN Outcome([NoResponse EXCEPT !.status = 500, !.keys = {"error"},
                                       !.error = KeyMissingError],
                    Append(log1, <<"CRITICAL: GEMINI_API_KEY is missing via process.env">>),
                    <<>>)
       ELSE IF ~built.ok THEN AnalyzeCatch(built.message, log1, <<>>)
       ELSE
         LET log2 == Append(log1, <<"Sending request to Gemini">>)
             calls == <<Outbound(key, built.prompt)>>
         IN IF rep.kind = "network"
            THEN AnalyzeCatch(FetchFailedMessage, log2, calls)
            ELSE IF rep.status # 200
            THEN AnalyzeCatch(GeminiApiErrorMessage(rep), log2, calls)
            ELSE IF ~rep.bodyOk
            THEN AnalyzeCatch(ParseErrorMessage(UnparsableBody, ctx), log2, calls)
            ELSE IF Falsy(rep.text)
            THEN AnalyzeCatch(EmptyResponseMessage, log2, calls)
            ELSE
              LET cleanText == CleanText(rep.text.v)
                  parsed == JSONParse(cleanText, ctx)
              IN IF ~parsed.ok
                 THEN AnalyzeCatch(
                        <<"AI response was not valid JSON:">> \o parsed.message,
                        Append(log2, <<"JSON Parse Error. Raw text:">> \o cleanText),
                        calls)
                 ELSE Outcome(
                        [NoResponse EXCEPT
                           !.status = 200,
                           !.keys = {"success", "data", "meta"},
                           !.data = [NoData EXCEPT !.kind = "object",
                                                   !.members = parsed.members]],
                        Append(log2, <<"Analysis completed">>),
                        calls)

AnalyzeIndexHandler(req, rep, e, ctx) ==
  AnalyzeHandler(BuildAnalysisPromptIndex(req.owner, req.repo, req.analysisData),
                 req, rep, GENAI_API_KEY(e), ctx)

AnalyzeLegacyHandler(req, rep, e, ctx) ==
  AnalyzeHandler(BuildAnalysisPromptLegacy(req.owner, req.repo, req.analysisData),
                 req, rep, GENAI_API_KEY(e), ctx)

\* ------------------------------------------------------------------------
\* The incident endpoints of the Express server
\* ------------------------------------------------------------------------

DebugDataValues == {None, Some(<<"ReferenceError: spark is not defined">>)}

IncidentRequests ==
  {NoRequest}
    \cup {[NoRequest EXCEPT !.hasBody = TRUE, !.debugData = d] :
            d \in DebugDataValues}

\* The catch block of both incident endpoints:
\* {error: error.message || 'Internal server error',
\*  details: NODE_ENV === 'development' ? error.message : undefined, meta}
IncidentCatch(message, logged, calls, e) ==
  LET dev == e.NODE_ENV = "development"
  IN Outcome(
       [NoResponse EXCEPT
          !.status = 500,
          !.keys = IF dev THEN {"error", "details", "meta"} ELSE {"error", "meta"},
          !.error = TextOr(message, <<"Internal server error">>),
          !.detailsMessage = IF dev THEN message ELSE <<>>],
       Append(logged, <<"Error in incident analysis:">> \o message),
       calls)

\* Both incident endpoints from the fetch on.
IncidentTail(rep, logged, calls, e, ctx) ==
  IF rep.kind = "network" THEN IncidentCatch(FetchFailedMessage, logged, calls, e)
  ELSE IF rep.status # 200
  THEN IncidentCatch(GeminiApiErrorMessage(rep), logged, calls, e)
  ELSE IF ~rep.bodyOk
  THEN IncidentCatch(ParseErrorMessage(UnparsableBody, ctx), logged, calls, e)
  ELSE
    LET responseText == IF Falsy(rep.text) THEN <<"{", "}">> ELSE rep.text.v
        cleanText == CleanText(responseText)
        parsed == JSONParse(cleanText, ctx)
    IN IF parsed.ok
       THEN Outcome(
              [NoResponse EXCEPT
                 !.status = 200,
                 !.keys = {"success", "data", "meta"},
                 !.data = [NoData EXCEPT !.kind = "object",
                                         !.members = parsed.members]],
              Append(logged, <<"Incident Analysis completed">>),
              calls)
       ELSE Outcome(
              [NoResponse EXCEPT
                 !.status = 200,
                 !.keys = {"success", "data", "meta"},
                 !.data = [NoData EXCEPT
                             !.kind = "rawResponse",
                             !.raw = responseText,
                             !.error = <<"Failed to parse JSON response">>]],
              Logged2(logged,
                      <<"Failed to parse AI response as JSON">> \o parsed.message,
                      <<"Incident Analysis completed">>),
              calls)

\* POST /api/incident-analyze of the current server file.
IncidentIndexHandler(req, rep, e, ctx) ==
  IF ~req.hasBody
  THEN IncidentCatch(CannotDestructure("owner"), <<>>, <<>>, e)
  ELSE IF Falsy(req.owner) \/ Falsy(req.repo)
  THEN Outcome([NoResponse EXCEPT !.status = 400, !.keys = {"error"},
                                  !.error = <<"Owner and repository are required">>],
               <<>>, <<>>)
  ELSE
    LET log1 == <<<<"Starting incident analysis for">> \o req.owner.v
                    \o <<"/">> \o req.repo.v>>
        built == BuildAnalysisPromptIndex(req.owner, req.repo, req.analysisData)
    IN IF ~built.ok THEN IncidentCatch(built.message, log1, <<>>, e)
       ELSE IncidentTail(rep,
                         Append(log1, <<"Sending incident analysis request to Gemini">>),
                         <<Outbound(GENAI_API_KEY(e), built.prompt)>>, e, ctx)

\* POST /api/analyze-incident of the earlier server file.
IncidentLegacyHandler(req, rep, e, ctx) ==
  IF ~req.hasBody
  THEN IncidentCatch(CannotDestructure("debugData"), <<>>, <<>>, e)
  ELSE IF Falsy(req.debugData)
  THEN Outcome([NoResponse EXCEPT !.status = 400, !.keys = {"error"},
                                  !.error = <<"Debug data is required">>],
               <<>>, <<>>)
  ELSE IF Falsy(GENAI_API_KEY(e))
  THEN Outcome([NoResponse EXCEPT
                  !.status = 500, !.keys = {"error"},
                  !.error = <<"Configuration error: Analysis service is not available.">>],
               <<<<"GEMINI_API_KEY is not configured on the server">>>>,
               <<>>)
  ELSE IncidentTail(rep,
                    <<<<"Incident Analysis Request received">>,
                      <<"Sending incident analysis request to Gemini">>>>,
                    <<Outbound(GENAI_API_KEY(e),
                               <<"incident:">> \o req.debugData.v)>>,
                    e, ctx)

\* ------------------------------------------------------------------------
\* The server file with the fallback report (/api/llm, /api/analyze,
\* /api/analyze-incident)
\* ------------------------------------------------------------------------

PromptValues == {None, Some(<<"hello">>)}

PromptRequests ==
  {[NoRequest EXCEPT !.method = m] : m \in {"POST", "GET"}}
    \cup {[NoRequest EXCEPT !.method = m, !.hasBody = TRUE, !.prompt = q] :
            m \in {"POST", "GET"}, q \in PromptValues}

LlmRequests == {r \in PromptRequests : r.method = "POST"}

MissingApiKeyMessage ==
  <<"MISSING_API_KEY: Gemini API Key is not configured in .env">>

\* getApiKey: process.env.VITE_GEMINI_API_KEY || process.env.GEMINI_API_KEY
GetApiKey(e) == OrElse(e.VITE_GEMINI_API_KEY, e.GEMINI_API_KEY)

CallOk(text, calls) ==
  [ok |-> TRUE, text |-> text, message |-> <<>>, calls |-> calls]
CallThrows(message, calls) ==
  [ok |-> FALSE, text |-> <<>>, message |-> message, calls |-> calls]

\* callGeminiAPI: the text of the first candidate or '', or what it throws.
CallGeminiAPI(prompt, rep, e, ctx) ==
  IF Falsy(GetApiKey(e)) THEN CallThrows(MissingApiKeyMessage, <<>>)
  ELSE
    LET calls == <<Outbound(GetApiKey(e), prompt)>>
    IN IF rep.kind = "network" THEN CallThrows(FetchFailedMessage, calls)
       ELSE IF ~rep.bodyOk
       THEN CallThrows(ParseErrorMessage(UnparsableBody, ctx), calls)
       ELSE IF rep.status # 200
       THEN CallThrows(<<"Gemini", "API", "Error:">> \o DecimalText(rep.status)
                         \o <<"-">> \o StringifyErrorData(rep),
                       calls)
       ELSE CallOk(IF Falsy(rep.text) THEN <<>> ELSE rep.text.v, calls)

\* JSON.stringify(data, null, 2) of a bag
StringifyBag(b) ==
  <<"{">>
    \o (IF b.languages.def
        THEN <<"\"languages\":">> \o Join(b.languages.v, ",") ELSE <<>>)
    \o (IF b.fileStructure.def
        THEN <<"\"fileStructure\":">> \o Join(b.fileStructure.v, ",") ELSE <<>>)
    \o <<"}">>

\* '\n... [TRUNCATED]'
TruncationMarker == "... [TRUNCATED]"

\* dataString after the if block: its first MAX_CHARS characters and the
\* marker when it is longer than MAX_CHARS.
SafeDataString(dataString) ==
  IF Len(dataString) > MAX_CHARS
  THEN SubSeq(dataString, 1, MAX_CHARS) \o <<TruncationMarker>>
  ELSE dataString

\* console.warn(`Truncating payload for ${owner}/${repo} from ${dataString.length}
\* to ${MAX_CHARS} chars.`): the lines createSafePrompt writes.
TruncationWarning(owner, repo, data) ==
  IF data.def /\ Len(StringifyBag(data)) > MAX_CHARS
  THEN <<<<"Truncating payload for">> \o owner.v \o <<"/">> \o repo.v
           \o <<"from">> \o DecimalText(Len(StringifyBag(data)))
           \o <<"to">> \o DecimalText(MAX_CHARS) \o <<"chars.">>>>
  ELSE <<>>

\* createSafePrompt: JSON.stringify(undefined) is undefined and reading its
\* length throws.
CreateSafePrompt(owner, repo, data) ==
  IF ~data.def THEN BuildThrows(CannotRead("length"))
  ELSE BuildOk(<<"Analyze the repository">> \o owner.v \o <<"/">> \o repo.v
                 \o <<"Repository Data Summary:">>
                 \o SafeDataString(StringifyBag(data)))

\* app.post('/api/llm')
LlmHandler(req, rep, e, ctx) ==
  IF ~req.hasBody
  THEN Outcome([NoResponse EXCEPT !.status = 500, !.keys = {"error"},
                                  !.error = CannotDestructure("prompt")],
               <<<<"Error calling Gemini:">> \o CannotDestructure("prompt")>>,
               <<>>)
  ELSE IF Falsy(req.prompt)
  THEN Outcome([NoResponse EXCEPT !.status = 400, !.keys = {"error"},
                                  !.error = <<"Prompt is required">>],
               <<>>, <<>>)
  ELSE
    LET log1 == <<<<"LLM Request received">>>>
        called == CallGeminiAPI(req.prompt.v, rep, e, ctx)
    IN IF called.ok
       THEN Outcome([NoResponse EXCEPT !.status = 200, !.keys = {"response"},
                                       !.text = Some(called.text)],
                    log1, called.calls)
       ELSE Outcome([NoResponse EXCEPT !.status = 500, !.keys = {"error"},
                                       !.error = called.message],
                    Append(log1, <<"Error calling Gemini:">> \o called.message),
                    called.calls)

\* The catch block of the fallback variant of POST /api/analyze: HTTP 200
\* with fallbackAnalysis, whose text holds `Error: ${error.message}`.
AnalyzeFallbackCatch(message, logged, calls) ==
  Outcome([NoResponse EXCEPT
             !.status = 200,
             !.keys = {"success", "data"},
             !.data = [NoData EXCEPT !.kind = "fallback",
                                     !.error = <<"Error:">> \o message]],
          Append(logged, <<"Error in analysis:">> \o message),
          calls)

\* app.post('/api/analyze') of the fallback variant.  req.body is
\* destructured outside the try: with no body the handler rejects and
\* Express answers 500 from its default error handler.
AnalyzeFallbackHandler(req, rep, e, ctx) ==
  IF ~req.hasBody
  THEN Outcome([NoResponse EXCEPT !.status = 500],
               <<CannotDestructure("owner")>>, <<>>)
  ELSE
    LET log1 == <<<<"Analysis Request:">>
                    \o (IF req.owner.def THEN req.owner.v ELSE <<"undefined">>)
                    \o <<"/">>
                    \o (IF req.repo.def THEN req.repo.v ELSE <<"undefined">>)>>
    IN IF Falsy(req.owner) \/ Falsy(req.repo)
       THEN Outcome([NoResponse EXCEPT !.status = 400, !.keys = {"error"},
                                       !.error = <<"Owner and repo are required">>],
                    log1, <<>>)
       ELSE
         LET built == CreateSafePrompt(req.owner, req.repo, req.analysisData)
             called == CallGeminiAPI(built.prompt, rep, e, ctx)
             log2 == log1 \o TruncationWarning(req.owner, req.repo, req.analysisData)
         IN IF ~built.ok THEN AnalyzeFallbackCatch(built.message, log1, <<>>)
            ELSE IF ~called.ok
            THEN AnalyzeFallbackCatch(called.message, log2, called.calls)
            ELSE
              LET jsonMatch == ExtractBraces(called.text)
                  cleanJson == IF jsonMatch.def THEN jsonMatch.v ELSE called.text
                  parsed == JSONParse(cleanJson, ctx)
              IN IF ~parsed.ok
                 THEN AnalyzeFallbackCatch(
                        <<"Failed to parse AI response as JSON">>,
                        Append(log2, <<"JSON Parse Failed.">>), called.calls)
                 ELSE Outcome(
                        [NoResponse EXCEPT
                           !.status = 200,
                           !.keys = {"success", "data"},
                           !.data = [NoData EXCEPT !.kind = "object",
                                                   !.members = parsed.members]],
                        Append(log2, <<"Analysis completed for">> \o req.owner.v
                                       \o <<"/">> \o req.repo.v),
                        called.calls)

\* app.post('/api/analyze-incident') of the fallback variant.
IncidentFallbackHandler(req, rep, e, ctx) ==
  IF ~req.hasBody
  THEN Outcome([NoResponse EXCEPT !.status = 500, !.keys = {"error"},
                                  !.error = CannotDestructure("debugData")],
               <<<<"Error in incident analysis:">> \o CannotDestructure("debugData")>>,
               <<>>)
  ELSE IF Falsy(req.debugData)
  THEN Outcome([NoResponse EXCEPT !.status = 400, !.keys = {"error"},
                                  !.error = <<"Debug data is required">>],
               <<>>, <<>>)
  ELSE
    LET log1 == <<<<"Incident Analysis Request">>>>
        called == CallGeminiAPI(<<"Analyze this incident root cause">> \o req.debugData.v,
                                rep, e, ctx)
        jsonMatch == ExtractBraces(called.text)
        cleanJson == IF jsonMatch.def THEN jsonMatch.v ELSE <<"{", "}">>
        parsed == JSONParse(cleanJson, ctx)
        failed == IF called.ok THEN parsed.message ELSE called.message
    IN IF called.ok /\ parsed.ok
       THEN Outcome([NoResponse EXCEPT
                       !.status = 200,
                       !.keys = {"success", "data"},
                       !.data = [NoData EXCEPT !.kind = "object",
                                               !.members = parsed.members]],
                    log1, called.calls)
       ELSE Outcome([NoResponse EXCEPT !.status = 500, !.keys = {"error"},
                                       !.error = failed],
                    Append(log1, <<"Error in incident analysis:">> \o failed),
                    called.calls)

\* ------------------------------------------------------------------------
\* The serverless handler (api/genai.ts)
\* ------------------------------------------------------------------------

\* process.env.GEMINI_API_KEY || process.env.VITE_GEMINI_API_KEY || process.env.GOOGLE_AI_API_KEY
API_KEY(e) ==
  OrElse(OrElse(e.GEMINI_API_KEY, e.VITE_GEMINI_API_KEY), e.GOOGLE_AI_API_KEY)

GenaiHandler(req, rep, e, ctx) ==
  IF req.method # "POST"
  THEN Outcome([NoResponse EXCEPT !.status = 405, !.keys = {"error"},
                                  !.error = <<"Method not allowed">>],
               <<>>, <<>>)
  ELSE IF Falsy(API_KEY(e))
  THEN Outcome([NoResponse EXCEPT !.status = 500, !.keys = {"error"},
                                  !.error = <<"API key not configured">>],
               <<>>, <<>>)
  ELSE IF ~req.hasBody
  THEN Outcome([NoResponse EXCEPT !.status = 500, !.keys = {"error", "message"},
                                  !.error = <<"API request failed">>,
                                  !.message = CannotDestructure("prompt")],
               <<>>, <<>>)
  ELSE IF Falsy(req.prompt)
  THEN Outcome([NoResponse EXCEPT !.status = 400, !.keys = {"error"},
                                  !.error = <<"prompt is required">>],
               <<>>, <<>>)
  ELSE
    LET calls == <<Outbound(API_KEY(e), req.prompt.v)>>
    IN IF rep.kind = "network"
       THEN Outcome([NoResponse EXCEPT !.status = 500, !.keys = {"error", "message"},
                                       !.error = <<"API request failed">>,
                                       !.message = FetchFailedMessage],
                    <<>>, calls)
       ELSE IF rep.status # 200
       THEN Outcome([NoResponse EXCEPT
                       !.status = rep.status,
                       !.keys = IF rep.bodyOk THEN {"error"} ELSE {},
                       !.error = IF rep.bodyOk THEN ProviderErrorObject(rep) ELSE <<>>],
                    <<>>, calls)
       ELSE IF ~rep.bodyOk
       THEN Outcome([NoResponse EXCEPT !.status = 500, !.keys = {"error", "message"},
                                       !.error = <<"API request failed">>,
                                       !.message = ParseErrorMessage(UnparsableBody, ctx)],
                    <<>>, calls)
       ELSE Outcome([NoResponse EXCEPT
                       !.status = 200,
                       !.keys = IF rep.text.def THEN {"text"} ELSE {},
                       !.text = rep.text],
                    <<>>, calls)

\* ------------------------------------------------------------------------
\* Scripts and start-up
\* ------------------------------------------------------------------------

\* debug-env.js
DebugEnvLog(e) ==
  <<<<"GEMINI_API_KEY:", IF Falsy(e.GEMINI_API_KEY) THEN "MISSING" ELSE "FOUND">>>>
    \o (IF Falsy(e.GEMINI_API_KEY) THEN <<>>
        ELSE <<<<"Key length:">> \o DecimalText(Len(e.GEMINI_API_KEY.v)),
               <<"First 5 chars:">>
                 \o SubSeq(e.GEMINI_API_KEY.v, 1, Min(5, Len(e.GEMINI_API_KEY.v)))>>)

\* app.listen(PORT, ...)
ListenLog(e) ==
  <<<<"Proxy server running on port">>,
    <<"Security: Helmet & CORS enabled">>,
    <<"API Key Configured:", IF Falsy(GENAI_API_KEY(e)) THEN "No" ELSE "Yes">>>>

\* ------------------------------------------------------------------------
\* State of the App (src/App.tsx)
\* ------------------------------------------------------------------------

VARIABLES
  reports,        \* useKV('production-reports'): the list of the last render
  reportsKind,    \* the kind of value it is: "array", or what a foreign item
                  \* parsed to
  storage,        \* localStorage['production-reports'], None when absent
  writable,       \* whether localStorage.setItem succeeds in this browser
  currentReport,  \* the displayed report, None when the form is shown
  isAnalyzing,
  error,          \* the App's error message, None when there is none
  inflight,       \* the handleAnalyze calls awaiting generateProductionReport
  clock,          \* Date.now()
  lastOp          \* history: the App's last handler, its argument, and the
                  \* list and the stored item it found

appVars ==
  <<reports, reportsKind, storage, writable, currentReport, isAnalyzing, error, inflight,
    clock, lastOp>>

\* One analysis followed from the form to the exported file, with the
\* whole content of its report.
VARIABLES
  stage,       \* "form", "displayed" or "exported"
  github,      \* what GitHub answers to the calls of this analysis
  proxyReply,  \* what the proxy answers to POST /api/analyze
  generated,   \* the report handleAnalyze displays and stores, None if none
  shownError,  \* the message in the App's error alert, None if none
  view,        \* what rendering ReportView came to, None if nothing rendered
  exportFile   \* what handleExport came to, None before

pathVars == <<stage, github, proxyReply, generated, shownError, view, exportFile>>

\* The analysis form.
VARIABLES
  formUrl,    \* the text in the input
  formError,  \* the validation message, '' when there is none
  submitted,  \* what the last handleSubmit passed to onSubmit, None if nothing
  formOp      \* history: "idle", "change" or "submit", the form's last handler

formVars == <<formUrl, formError, submitted, formOp>>

vars == <<env, handler, request, reply, sent, response, log,
          reports, reportsKind, storage, writable, currentReport, isAnalyzing, error,
          inflight, clock, lastOp,
          stage, github, proxyReply, generated, shownError, view, exportFile,
          formUrl, formError, submitted, formOp>>

Urls == {[text |-> "owner/repo", valid |-> TRUE], [text |-> "not a url", valid |-> FALSE]}

\* The overallStatus of the reports the list is made of.  No operation on
\* the list reads it, so one value stands for all of them here; the values
\* a report can carry are those of StatusInputs.
ReportStatuses == {"ready"}

\* id is Date.now() when the proxy has answered, createdAt the time
\* generateProductionReport was entered.
Report(id, url, status, analyzedAt) ==
  [id |-> id, url |-> url, overallStatus |-> status, createdAt |-> analyzedAt]

\* The filter with its comparison inverted: keeps the reports it should drop.
DeleteFromInverted(currentReports, reportId) ==
  SelectSeq(currentReports, LAMBDA r : r.id = reportId)

\* (currentReports || []).filter(r => r.id !== reportId)
DeleteFrom(currentReports, reportId) ==
  SelectSeq(currentReports, LAMBDA r : r.id # reportId)

\* The new report put behind the others.
PrependAtBack(report, currentReports) == currentReports \o <<report>>

\* The new report put first and its creation time written over the others'.
PrependRestamped(report, currentReports) ==
  <<report>> \o [i \in DOMAIN currentReports |->
                  [currentReports[i] EXCEPT !.createdAt = report.createdAt]]

\* [report, ...(currentReports || [])]
Prepend(report, currentReports) == <<report>> \o currentReports

Quote == "\""

\* JSON.stringify of a report: its members in insertion order, id and
\* createdAt being strings made of a time.
StringifyReport(r) ==
  <<"{", "id", ":", Quote, "report-">> \o DecimalText(r.id)
    \o <<Quote, ",", "url", ":", Quote, r.url, Quote, ",",
         "overallStatus", ":", Quote, r.overallStatus, Quote, ",",
         "createdAt", ":", Quote>> \o DecimalText(r.createdAt) \o <<Quote, "}">>

\* The elements written last to first.
RECURSIVE StringifyItemsReversed(_)
StringifyItemsReversed(list) ==
  IF list = <<>> THEN <<>>
  ELSE IF Len(list) = 1 THEN StringifyReport(Head(list))
  ELSE StringifyItemsReversed(Tail(list)) \o <<",">> \o StringifyReport(Head(list))

RECURSIVE StringifyItems(_)
StringifyItems(list) ==
  IF list = <<>> THEN <<>>
  ELSE IF Len(list) = 1 THEN StringifyReport(Head(list))
  ELSE StringifyReport(Head(list)) \o <<",">> \o StringifyItems(Tail(list))

\* JSON.stringify(newValue) for a list of reports.
JSONStringify(list) == <<"[">> \o StringifyItems(list) \o <<"]">>

\* The position of the first atom a in t, 0 when there is none.
IndexOf(t, a) ==
  IF \E i \in 1..Len(t) : t[i] = a
  THEN CHOOSE i \in 1..Len(t) : t[i] = a /\ \A j \in 1..(i - 1) : t[j] # a
  ELSE 0

DigitValue(a) == CHOOSE n \in 0..9 : DigitAtoms[n + 1] = a

\* The number a text of digits denotes.
RECURSIVE ParseDecimal(_)
ParseDecimal(t) ==
  IF Len(t) = 1 THEN DigitValue(t[1])
  ELSE 10 * ParseDecimal(SubSeq(t, 1, Len(t) - 1)) + DigitValue(t[Len(t)])

\* The atoms of the string that is the value of member name in an object
\* text.
StringMember(chunk, name) ==
  LET rest == SubSeq(chunk, IndexOf(chunk, name) + 3, Len(chunk))
  IN SubSeq(rest, 1, IndexOf(rest, Quote) - 1)

ParseReport(chunk) ==
  [id |-> ParseDecimal(Tail(StringMember(chunk, "id"))),
   url |-> StringMember(chunk, "url")[1],
   overallStatus |-> StringMember(chunk, "overallStatus")[1],
   createdAt |-> ParseDecimal(StringMember(chunk, "createdAt"))]

\* The elements of an array text, its brackets taken off.
RECURSIVE ParseItems(_)
ParseItems(inner) ==
  IF inner = <<>> THEN <<>>
  ELSE LET k == IndexOf(inner, "}")
       IN <<ParseReport(SubSeq(inner, 1, k))>>
            \o ParseItems(SubSeq(inner, k + 2, Len(inner)))

\* The JSON values a stored item parses to, by kind; items are the elements
\* of an array.
JsonValue(kind, items) == [ok |-> TRUE, kind |-> kind, items |-> items]
ParseThrows == [ok |-> FALSE, kind |-> "none", items |-> <<>>]

\* JSON.parse(stored)
ParseStored(t) ==
  IF t = <<"null">> THEN JsonValue("null", <<>>)
  ELSE IF t = <<"{", "}">> THEN JsonValue("object", <<>>)
  ELSE IF Len(t) >= 2 /\ t[1] = "[" /\ t[Len(t)] = "]"
  THEN JsonValue("array", ParseItems(SubSeq(t, 2, Len(t) - 1)))
  ELSE ParseThrows

\* Items found under the key that no setStoredValue wrote: text that is not
\* JSON, the JSON object {} and the JSON null.
ForeignItems == {<<"not json">>, <<"{", "}">>, <<"null">>}

\* localStorage.setItem(key, JSON.stringify(newValue)) in try/catch: the
\* item is written, or setItem throws (quota exceeded, storage disabled) and
\* the item stays as it was.
Persisted(newValue, stored, canWrite) ==
  IF canWrite THEN Some(JSONStringify(newValue)) ELSE stored

\* ------------------------------------------------------------------------
\* JSON values on the client
\* ------------------------------------------------------------------------

\* A JavaScript value that came out of JSON.parse, or undefined: its kind,
\* the characters of a string / the elements of an array in items, and the
\* members of an object.
J(kind, items, members) == [kind |-> kind, items |-> items, members |-> members]

Undefined == J("undefined", <<>>, <<>>)
JNull == J("null", <<>>, <<>>)
JStr(s) == J("string", <<s>>, <<>>)
JNumber == J("number", <<"5">>, <<>>)
JObject(members) == J("object", <<>>, members)
JArray(items) == J("array", items, <<>>)

\* The value as a condition: undefined, null and '' are falsy.
Truthy(v) == v.kind \notin {"undefined", "null"} /\ v # JStr("")

\* a || b
JOr(a, b) == IF Truthy(a) THEN a ELSE b

\* Reading v.name throws a TypeError on undefined and null.
CanRead(v) == v.kind \notin {"undefined", "null"}

\* v.name for a member name of the report data: an object's own member, and
\* undefined on strings, numbers and arrays.
Member(v, name) ==
  IF v.kind = "object" /\ name \in DOMAIN v.members THEN v.members[name]
  ELSE Undefined

\* Array.isArray(v)
IsArray(v) == v.kind = "array"

\* v.length > 0: arrays and strings have a length, other values have none
\* and undefined > 0 is false.
HasLength(v) ==
  \/ v.kind = "array" /\ v.items # <<>>
  \/ v.kind = "string" /\ v # JStr("")

\* What a promise settles to, and what a call returns or throws.
Resolved(value) == [ok |-> TRUE, value |-> value, message |-> <<>>]
Rejected(message) == [ok |-> FALSE, value |-> Undefined, message |-> message]

\* ------------------------------------------------------------------------
\* parseGitHubUrl (src/lib/github.ts) and the analysis form
\* ------------------------------------------------------------------------

\* Longest text typed into the form, in atoms.
MaxUrlLen == 6

\* What a typed text is made of: white space, the slash, the host name, a
\* name, and the .git suffix.
UrlAtoms == {" ", "/", "github.com", "a", ".git"}

\* [^\/]+ from position i on: the position of the last atom of the longest
\* run without a slash that starts at i, i - 1 when there is none.
RunEnd(t, i) ==
  CHOOSE k \in (i - 1)..Len(t) :
    /\ \A m \in i..k : t[m] # "/"
    /\ k < Len(t) => t[k + 1] = "/"

NoMatch == [matched |-> FALSE, owner |-> <<>>, repo |-> <<>>]

\* The groups of a match whose owner starts at position i.
OwnerAndRepoAt(t, i) ==
  LET j == RunEnd(t, i)
  IN IF i <= Len(t) /\ j >= i /\ j + 2 <= Len(t) /\ RunEnd(t, j + 2) >= j + 2
     THEN [matched |-> TRUE, owner |-> SubSeq(t, i, j),
           repo |-> SubSeq(t, j + 2, RunEnd(t, j + 2))]
     ELSE NoMatch

\* cleanUrl.match(/github\.com\/([^\/]+)\/([^\/]+)/) : the leftmost match
GithubPattern(t) ==
  LET starts == {i \in 1..Len(t) :
                   /\ t[i] = "github.com"
                   /\ i < Len(t)
                   /\ t[i + 1] = "/"
                   /\ OwnerAndRepoAt(t, i + 2).matched}
  IN IF starts = {} THEN NoMatch
     ELSE OwnerAndRepoAt(t, (CHOOSE i \in starts : \A j \in starts : i <= j) + 2)

\* cleanUrl.match(/^([^\/]+)\/([^\/]+)$/)
ShortPattern(t) ==
  LET m == OwnerAndRepoAt(t, 1)
  IN IF m.matched /\ Len(m.owner) + 1 + Len(m.repo) = Len(t) THEN m ELSE NoMatch

\* repo.replace(/\.git$/, '')
StripDotGit(repo) ==
  IF repo # <<>> /\ repo[Len(repo)] = ".git"
  THEN SubSeq(repo, 1, Len(repo) - 1)
  ELSE repo

\* if (match) { ... if (owner && repo && owner !== '' && repo !== '') return }
Accepted(m) == m.matched /\ m.owner # <<>> /\ StripDotGit(m.repo) # <<>>

NotParsed == [ok |-> FALSE, owner |-> <<>>, repo |-> <<>>]

\* parseGitHubUrl: the first pattern whose match gives an owner and a
\* repo, or null.
ParseGitHubUrl(url) ==
  LET cleanUrl == Trim(url)
      first == GithubPattern(cleanUrl)
      second == ShortPattern(cleanUrl)
  IN IF Accepted(first)
     THEN [ok |-> TRUE, owner |-> first.owner, repo |-> StripDotGit(first.repo)]
     ELSE IF Accepted(second)
     THEN [ok |-> TRUE, owner |-> second.owner, repo |-> StripDotGit(second.repo)]
     ELSE NotParsed

\* Every text passes.
AcceptsEveryUrl(url) == TRUE

\* isValidGitHubUrl
IsValidGitHubUrl(url) == ParseGitHubUrl(url).ok

\* The Arabic messages of the form: "please enter the repository link" and
\* "the GitHub link is not correct, please enter a correct link such as
\* https://github.com/owner/repo".
EnterUrlMessage == <<"[ar] please enter the repository link">>
InvalidUrlMessage == <<"[ar] GitHub link is not correct, enter one such as https://github.com/owner/repo">>

\* AnalysisForm.handleSubmit: the validation message it sets and what it
\* passes to onSubmit.
FormOutcome(url) ==
  IF Trim(url) = <<>> THEN [error |-> EnterUrlMessage, submitted |-> None]
  ELSE IF ~IsValidGitHubUrl(url)
  THEN [error |-> InvalidUrlMessage, submitted |-> None]
  ELSE [error |-> <<>>, submitted |-> Some(Trim(url))]

\* ------------------------------------------------------------------------
\* src/lib/github.ts and src/lib/analyzer.ts
\* ------------------------------------------------------------------------

\* The Arabic messages fetchRepositoryInfo throws: "the repository does not
\* exist or is private", "the GitHub API rate limit was exceeded, wait or
\* add VITE_GITHUB_TOKEN", "access to the repository failed: <statusText>".
NotFoundMessage == <<"[ar] the repository does not exist or is private">>
RateLimitMessage ==
  <<"[ar] GitHub API rate limit exceeded, wait or add VITE_GITHUB_TOKEN">>
AccessFailedMessage == <<"[ar] access to the repository failed:">>
FailedToFetch == <<"Failed to fetch">>
NotJsonMessage == <<"Unexpected token">>

\* An HTTP exchange as fetch shows it: the network fails, or a response
\* with a status and a body that parses to json or does not parse.
FetchFails == [kind |-> "network", status |-> 0, parses |-> FALSE, json |-> Undefined]
FetchAnswers(status, parses, json) ==
  [kind |-> "http", status |-> status, parses |-> parses, json |-> json]

\* response.ok
ResponseOk(r) == r.kind = "http" /\ r.status >= 200 /\ r.status <= 299

\* await response.json()
ResponseJson(r) == IF r.parses THEN Resolved(r.json) ELSE Rejected(NotJsonMessage)

\* GET /repos/{owner}/{repo}
RepoLookups ==
  {FetchFails,
   FetchAnswers(403, TRUE, JObject([message |-> JStr("API rate limit exceeded")])),
   FetchAnswers(404, TRUE, JObject([message |-> JStr("Not Found")])),
   FetchAnswers(500, FALSE, Undefined),
   FetchAnswers(200, TRUE, JObject([language |-> JStr("TypeScript")])),
   FetchAnswers(200, TRUE, JNull)}

\* GET /repos/{owner}/{repo}/contents/
ContentsLookups ==
  {FetchAnswers(404, TRUE, JObject([message |-> JStr("Not Found")])),
   FetchAnswers(200, TRUE, JArray(<<JObject([name |-> JStr("README.md")])>>)),
   FetchAnswers(200, TRUE, JArray(<<JNull>>))}

GitHubOutcomes == [info : RepoLookups, contents : ContentsLookups]

FetchRepositoryInfo(r) ==
  IF r.kind = "network" THEN Rejected(FailedToFetch)
  ELSE IF ~ResponseOk(r)
  THEN IF r.status = 404 THEN Rejected(NotFoundMessage)
       ELSE IF r.status = 403 THEN Rejected(RateLimitMessage)
       ELSE Rejected(AccessFailedMessage)
  ELSE ResponseJson(r)

\* Never throws: null when the response is not ok or anything throws.
FetchRepositoryContents(r) ==
  IF r.kind = "network" \/ ~ResponseOk(r) \/ ~r.parses THEN JNull ELSE r.json

\* data.fileStructure.push(item.name) over the items, up to the first item
\* whose name cannot be read.
RECURSIVE PushNames(_)
PushNames(items) ==
  IF items = <<>> THEN [ok |-> TRUE, names |-> <<>>]
  ELSE IF ~CanRead(Head(items)) THEN [ok |-> FALSE, names |-> <<>>]
  ELSE LET rest == PushNames(Tail(items))
           name == Member(Head(items), "name")
       IN [ok |-> rest.ok,
           names |-> (IF name.kind = "string" THEN name.items ELSE <<"undefined">>)
                       \o rest.names]

\* The try block of analyzeRepository: whether it ran to its end, and the
\* data it had filled in by then.
AnalyzeRepositoryBody(gh) ==
  LET repoInfo == FetchRepositoryInfo(gh.info)
      contents == FetchRepositoryContents(gh.contents)
  IN IF ~repoInfo.ok THEN [ok |-> FALSE, message |-> repoInfo.message,
                           data |-> Bag(Some(<<>>), Some(<<>>))]
     ELSE IF ~CanRead(repoInfo.value)
     THEN [ok |-> FALSE, message |-> CannotRead("language"),
           data |-> Bag(Some(<<>>), Some(<<>>))]
     ELSE LET language == Member(repoInfo.value, "language")
              languages == IF Truthy(language) THEN language.items ELSE <<>>
              pushed == IF IsArray(contents) THEN PushNames(contents.items)
                        ELSE [ok |-> TRUE, names |-> <<>>]
          IN [ok |-> pushed.ok, message |-> CannotRead("name"),
              data |-> Bag(Some(languages), Some(pushed.names))]

\* analyzeRepository without its catch: what the try block throws goes to
\* the caller.
AnalyzeRepositoryRethrows(gh) ==
  IF AnalyzeRepositoryBody(gh).ok THEN Resolved(AnalyzeRepositoryBody(gh).data)
  ELSE Rejected(AnalyzeRepositoryBody(gh).message)

\* analyzeRepository: the catch logs the error and the data filled in so
\* far is returned.
AnalyzeRepository(gh) == Resolved(AnalyzeRepositoryBody(gh).data)

\* The values the model's JSON gives overallStatus and a domain's status:
\* values of ReadinessStatus, the 'needs_work' of the proxy's fallback
\* report, a name every object inherits, and no value at all.
StatusInputs ==
  {JStr("ready"), JStr("conditional"), JStr("needs_work"), JStr("constructor"),
   Undefined}

DomainStatusInputs == {JStr("ready"), JStr("needs_work")}

\* The JSON values found where a list of texts is expected: no list, one
\* text, lists of texts, and lists of objects that carry the text in
\* description or in text, or carry an object where the text should be.
TextLists ==
  {Undefined, JNull, JStr("text"), JNumber, JObject(<<>>), JArray(<<>>),
   JArray(<<JStr("text")>>), JArray(<<JNull>>),
   JArray(<<JObject([description |-> JStr("d"), text |-> JStr("t")]),
            JObject([text |-> JStr("t")]), JNumber>>),
   JArray(<<JObject([description |-> JObject([en |-> JStr("d")])])>>)}

DomainTextLists ==
  {Undefined, JStr("text"), JArray(<<JStr("text")>>), JArray(<<JNull>>)}

Domain(status, findings, recommendations) ==
  JObject([title |-> JStr("Security"), status |-> status,
           description |-> JStr("description"), findings |-> findings,
           recommendations |-> recommendations])

\* The JSON values found where the list of domains is expected.
DomainsInputs ==
  {Undefined, JNull, JStr("text"), JObject(<<>>), JArray(<<>>), JArray(<<JNull>>),
   JArray(<<JStr("text")>>)}
    \cup {JArray(<<Domain(st, f, f)>>) : st \in DomainStatusInputs, f \in DomainTextLists}

ReportData(status, domains, issues) ==
  JObject([summary |-> JStr("summary"), overallStatus |-> status,
           domains |-> domains, criticalIssues |-> issues,
           recommendations |-> issues, conclusion |-> JStr("conclusion")])

\* result.data: absent, not an object, an object without members, or the
\* report the model wrote.
DataInputs ==
  {Undefined, JNull, JStr("text"), JObject(<<>>)}
    \cup {ReportData(st, d, i) : st \in StatusInputs, d \in DomainsInputs, i \in TextLists}

\* What POST /api/analyze answers to callProxyAnalysis.
ProxyOutcomes ==
  {FetchFails,
   FetchAnswers(500, TRUE, JObject([error |-> JStr("[ar] analysis failed")])),
   FetchAnswers(500, TRUE, JObject(<<>>)),
   FetchAnswers(500, TRUE, JNull),
   FetchAnswers(502, FALSE, Undefined),
   FetchAnswers(200, FALSE, Undefined),
   FetchAnswers(200, TRUE, JNull)}
    \cup {FetchAnswers(200, TRUE, JObject([success |-> JStr("true"), data |-> d])) :
            d \in DataInputs}

\* `HTTP ${response.status}: ${response.statusText}`
HttpStatusMessage(status) == <<"HTTP">> \o DecimalText(status)

\* A value interpolated into or used as an Error message.
MessageText(v) == IF v.kind = "string" THEN v.items ELSE <<"[object Object]">>

CallProxyAnalysis(px) ==
  IF px.kind = "network" THEN Rejected(FailedToFetch)
  ELSE IF ~ResponseOk(px)
  THEN LET errorData == IF px.parses THEN px.json
                        ELSE JObject([error |-> JStr("Unknown error")])
       IN IF ~CanRead(errorData) THEN Rejected(CannotRead("error"))
          ELSE IF Truthy(Member(errorData, "error"))
          THEN Rejected(MessageText(Member(errorData, "error")))
          ELSE Rejected(HttpStatusMessage(px.status))
  ELSE LET result == ResponseJson(px)
       IN IF ~result.ok THEN Rejected(result.message)
          ELSE IF ~CanRead(result.value) THEN Rejected(CannotRead("data"))
          ELSE Resolved(Member(result.value, "data"))

\* The Arabic texts of generateProductionReport: "no summary was provided",
\* "no conclusion was reached", "an error occurred while analysing the
\* repository", "the report could not be generated because of a service
\* error", "please try again later", "the analysis did not complete".
NoSummaryText == JStr("[ar] no summary was provided")
NoConclusionText == JStr("[ar] no conclusion was reached")
ErrorSummaryText == JStr("[ar] an error occurred while analysing the repository")
ServiceErrorIssue == JStr("[ar] report generation failed because of a service error")
TryAgainText == JStr("[ar] please try again later")
NotCompletedText == JStr("[ar] the analysis did not complete")

\* The report built from the proxy's data: every member is the data's
\* member, or a default when that is falsy.
ReportFromData(reportData, url, analyzedAt, now) ==
  [id |-> now, url |-> url,
   summary |-> JOr(Member(reportData, "summary"), NoSummaryText),
   overallStatus |-> JOr(Member(reportData, "overallStatus"), JStr("unknown")),
   domains |-> JOr(Member(reportData, "domains"), JArray(<<>>)),
   criticalIssues |-> JOr(Member(reportData, "criticalIssues"), JArray(<<>>)),
   recommendations |-> JOr(Member(reportData, "recommendations"), JArray(<<>>)),
   conclusion |-> JOr(Member(reportData, "conclusion"), NoConclusionText),
   createdAt |-> analyzedAt]

\* The report of the catch block.
FallbackReport(url, analyzedAt, now) ==
  [id |-> now, url |-> url,
   summary |-> ErrorSummaryText,
   overallStatus |-> JStr("unknown"),
   domains |-> JArray(<<>>),
   criticalIssues |-> JArray(<<ServiceErrorIssue>>),
   recommendations |-> JArray(<<TryAgainText>>),
   conclusion |-> NotCompletedText,
   createdAt |-> analyzedAt]

\* generateProductionReport: analyzeRepository is awaited outside the try,
\* callProxyAnalysis and the reads of reportData inside it.
GenerateProductionReport(url, gh, px, analyzedAt, now) ==
  LET analysis == AnalyzeRepository(gh)
      called == CallProxyAnalysis(px)
  IN IF ~analysis.ok THEN Rejected(analysis.message)
     ELSE IF ~called.ok \/ ~CanRead(called.value)
     THEN Resolved(FallbackReport(url, analyzedAt, now))
     ELSE Resolved(ReportFromData(called.value, url, analyzedAt, now))

\* ------------------------------------------------------------------------
\* StatusBadge, ReportView and handleExport
\* ------------------------------------------------------------------------

\* type ReadinessStatus
ReadinessStatuses == {"ready", "conditional", "not-ready", "unknown"}

\* Names every object literal inherits from Object.prototype.
InheritedKeys == {"constructor", "toString", "valueOf", "hasOwnProperty"}

\* The Arabic labels: "ready", "ready with conditions", "not ready",
\* "unknown".
StatusLabel(name) ==
  CASE name = "ready" -> "[ar] ready"
    [] name = "conditional" -> "[ar] ready with conditions"
    [] name = "not-ready" -> "[ar] not ready"
    [] OTHER -> "[ar] unknown"

\* The property key a value is converted to in configs[status].
PropertyKey(v) ==
  CASE v.kind = "string" -> v.items[1]
    [] v.kind = "number" -> v.items[1]
    [] v.kind = "undefined" -> "undefined"
    [] v.kind = "null" -> "null"
    [] v.kind = "array" -> ""
    [] OTHER -> "[object Object]"

Shown(label) == [ok |-> TRUE, label |-> label]
RenderThrows == [ok |-> FALSE, label |-> ""]

\* StatusBadge: configs[status] || configs.unknown, then <Icon/> with
\* config.icon and config.label.  An inherited name finds a function, which
\* has neither: the element type is undefined and React throws.
StatusBadge(status) ==
  IF PropertyKey(status) \in ReadinessStatuses THEN Shown(StatusLabel(PropertyKey(status)))
  ELSE IF PropertyKey(status) \in InheritedKeys THEN RenderThrows
  ELSE Shown(StatusLabel("unknown"))

\* A value between JSX braces: React throws on a plain object.
ChildOk(v) ==
  /\ v.kind # "object"
  /\ v.kind = "array" => \A i \in 1..Len(v.items) : v.items[i].kind # "object"

\* ReportView.getTextContent
GetTextContent(item) ==
  IF item.kind = "string" THEN item
  ELSE IF item.kind \in {"object", "array"}
  THEN JOr(JOr(Member(item, "description"), Member(item, "text")), JStr("{...}"))
  ELSE IF Truthy(item) THEN JStr(PropertyKey(item)) ELSE JStr("")

\* ReportView.ensureArray
EnsureArray(item) ==
  IF ~Truthy(item) THEN <<>>
  ELSE IF IsArray(item) THEN item.items
  ELSE IF item.kind \in {"string", "object"} THEN <<item>>
  ELSE <<>>

\* A list of texts as ReportView shows it.
TextItemsOk(v) ==
  \A i \in 1..Len(EnsureArray(v)) : ChildOk(GetTextContent(EnsureArray(v)[i]))

\* One AccordionItem of ReportView.
DomainItemOk(domain) ==
  /\ CanRead(domain)
  /\ StatusBadge(Member(domain, "status")).ok
  /\ ChildOk(Member(domain, "title"))
  /\ ChildOk(Member(domain, "description"))
  /\ TextItemsOk(Member(domain, "findings"))
  /\ TextItemsOk(Member(domain, "recommendations"))

\* Rendering ReportView: whether it completes, whether the overall badge
\* does and its label, and how many entries each section shows.
RenderReportView(report) ==
  [ok |-> /\ StatusBadge(report.overallStatus).ok
          /\ ChildOk(report.summary)
          /\ TextItemsOk(report.criticalIssues)
          /\ \A i \in 1..Len(EnsureArray(report.domains)) :
               DomainItemOk(EnsureArray(report.domains)[i])
          /\ TextItemsOk(report.recommendations)
          /\ ChildOk(report.conclusion),
   badgeOk |-> StatusBadge(report.overallStatus).ok,
   badge |-> StatusBadge(report.overallStatus).label,
   domains |-> Len(EnsureArray(report.domains)),
   criticalIssues |-> Len(EnsureArray(report.criticalIssues)),
   recommendations |-> Len(EnsureArray(report.recommendations))]

\* handleExport, the overall-status line: ready, conditional, and not
\* ready for everything else.
ExportOverallLabel(status) ==
  IF status = JStr("ready") THEN StatusLabel("ready")
  ELSE IF status = JStr("conditional") THEN StatusLabel("conditional")
  ELSE StatusLabel("not-ready")

\* handleExport, a domain's status line.
ExportDomainLabel(status) ==
  IF status = JStr("ready") THEN StatusLabel("ready")
  ELSE IF status = JStr("conditional") THEN StatusLabel("conditional")
  ELSE IF status = JStr("not-ready") THEN StatusLabel("not-ready")
  ELSE StatusLabel("unknown")

\* list.length > 0 ? list.map(...).join('\n') : placeholder, for the value
\* of member || []: map is a method of arrays only.
ExportSection(list) ==
  IF ~HasLength(list) THEN [ok |-> TRUE, text |-> "placeholder"]
  ELSE IF IsArray(list) THEN [ok |-> TRUE, text |-> "entries"]
  ELSE [ok |-> FALSE, text |-> ""]

\* (domain.findings || []).map(...)
ExportDomainList(list) == IsArray(JOr(list, JArray(<<>>)))

\* The callback of domains.map: reads domain.title, the status and both
\* lists.
ExportDomainOk(domain) ==
  /\ CanRead(domain)
  /\ ExportDomainList(Member(domain, "findings"))
  /\ ExportDomainList(Member(domain, "recommendations"))

\* handleExport: whether it completes, and what the file holds.
HandleExport(report) ==
  LET domains == JOr(report.domains, JArray(<<>>))
      criticalIssues == JOr(report.criticalIssues, JArray(<<>>))
      recommendations == JOr(report.recommendations, JArray(<<>>))
      domainsOk == /\ ExportSection(domains).ok
                   /\ \A i \in 1..Len(domains.items) : ExportDomainOk(domains.items[i])
  IN [ok |-> /\ domainsOk
             /\ ExportSection(criticalIssues).ok
             /\ ExportSection(recommendations).ok,
      overall |-> ExportOverallLabel(report.overallStatus),
      domainLabels |->
        IF domainsOk /\ IsArray(domains)
        THEN [i \in 1..Len(domains.items) |->
                ExportDomainLabel(Member(domains.items[i], "status"))]
        ELSE <<>>,
      domains |-> ExportSection(domains).text,
      criticalIssues |-> ExportSection(criticalIssues).text,
      recommendations |-> ExportSection(recommendations).text]

\* ------------------------------------------------------------------------
\* Actions of the proxy
\* ------------------------------------------------------------------------

ParseContexts == {0, ParseContextLen}

\* What the provider answers to a call: a call without a valid key is
\* refused with 400, or the network fails.
RepliesFor(key) ==
  IF Falsy(key)
  THEN {NetworkError, HttpError(400, TRUE, "API key not valid"), HttpError(400, FALSE, "")}
  ELSE Replies

Serve(name, req, rep, out) ==
  /\ handler = "idle"
  /\ handler' = name
  /\ request' = req
  /\ reply' = rep
  /\ sent' = out.sent
  /\ response' = out.response
  /\ log' = out.log
  /\ UNCHANGED env
  /\ UNCHANGED <<appVars, pathVars, formVars>>

AnalyzeIndex ==
  /\ handler = "idle"
  /\ \E req \in AnalyzeRequests, rep \in RepliesFor(GENAI_API_KEY(env)),
        ctx \in ParseContexts :
       Serve("index:/api/analyze", req, rep, AnalyzeIndexHandler(req, rep, env, ctx))

IncidentIndex ==
  /\ handler = "idle"
  /\ \E req \in AnalyzeRequests, rep \in RepliesFor(GENAI_API_KEY(env)),
        ctx \in ParseContexts :
       Serve("index:/api/incident-analyze", req, rep,
             IncidentIndexHandler(req, rep, env, ctx))

AnalyzeLegacy ==
  /\ handler = "idle"
  /\ \E req \in AnalyzeRequests, rep \in RepliesFor(GENAI_API_KEY(env)),
        ctx \in ParseContexts :
       Serve("legacy:/api/analyze", req, rep, AnalyzeLegacyHandler(req, rep, env, ctx))

IncidentLegacy ==
  /\ handler = "idle"
  /\ \E req \in IncidentRequests, rep \in RepliesFor(GENAI_API_KEY(env)),
        ctx \in ParseContexts :
       Serve("legacy:/api/analyze-incident", req, rep,
             IncidentLegacyHandler(req, rep, env, ctx))

Llm ==
  /\ handler = "idle"
  /\ \E req \in LlmRequests, rep \in RepliesFor(GetApiKey(env)), ctx \in ParseContexts :
       Serve("fallback:/api/llm", req, rep, LlmHandler(req, rep, env, ctx))

AnalyzeFallback ==
  /\ handler = "idle"
  /\ \E req \in AnalyzeRequests, rep \in RepliesFor(GetApiKey(env)),
        ctx \in ParseContexts :
       Serve("fallback:/api/analyze", req, rep,
             AnalyzeFallbackHandler(req, rep, env, ctx))

IncidentFallback ==
  /\ handler = "idle"
  /\ \E req \in IncidentRequests, rep \in RepliesFor(GetApiKey(env)),
        ctx \in ParseContexts :
       Serve("fallback:/api/analyze-incident", req, rep,
             IncidentFallbackHandler(req, rep, env, ctx))

Genai ==
  /\ handler = "idle"
  /\ \E req \in PromptRequests, rep \in RepliesFor(API_KEY(env)), ctx \in ParseContexts :
       Serve("serverless:/api/genai", req, rep, GenaiHandler(req, rep, env, ctx))

\* node debug-env.js
DebugEnv ==
  Serve("debug-env.js", NoRequest, NoReply, Outcome(NoResponse, DebugEnvLog(env), <<>>))

\* The server starts listening.
Listen ==
  Serve("listen", NoRequest, NoReply, Outcome(NoResponse, ListenLog(env), <<>>))

\* The response is with the client; the handlers keep nothing between
\* requests.
CloseConnection ==
  /\ handler # "idle"
  /\ handler' = "idle"
  /\ request' = NoRequest
  /\ reply' = NoReply
  /\ sent' = <<>>
  /\ response' = NoResponse
  /\ log' = <<>>
  /\ UNCHANGED env
  /\ UNCHANGED <<appVars, pathVars, formVars>>

\* ------------------------------------------------------------------------
\* Actions of the App
\* ------------------------------------------------------------------------

Op(name, id) == [name |-> name, id |-> id, before |-> reports]

\* useKV's initial state: stored ? JSON.parse(stored) : defaultValue, and
\* defaultValue when JSON.parse throws.
InitialValue(stored) ==
  IF Falsy(stored) THEN JsonValue("array", <<>>)
  ELSE IF ParseStored(stored.v).ok THEN ParseStored(stored.v)
  ELSE JsonValue("array", <<>>)

\* ReportHistory reads reports.length and calls reports.map on the value
\* of reports || []: a truthy value that is no array makes the render throw.
Renders(kind) == kind \in {"array", "null"}

\* A form whose controls stay enabled while loading.
FormSubmitsWhileLoading(current, isLoading) == ~current.def

\* The form can be submitted: AnalysisForm is rendered while no report is
\* displayed, and its input and submit button are disabled while isLoading.
FormSubmits(current, isLoading) == ~current.def /\ ~isLoading

\* The page is loaded again: every useState starts over.
Mount ==
  /\ reports' = InitialValue(storage).items
  /\ reportsKind' = InitialValue(storage).kind
  /\ currentReport' = None
  /\ isAnalyzing' = FALSE
  /\ error' = None
  /\ inflight' = <<>>
  /\ lastOp' = Op("mount", 0)
  /\ UNCHANGED <<storage, writable, clock>>
  /\ UNCHANGED <<proxyVars, pathVars, formVars>>

\* The finally block left out: isAnalyzing stays as it was.
FinallyOmitted(wasAnalyzing) == wasAnalyzing

\* isAnalyzing after handleAnalyze's finally block: setIsAnalyzing(false).
AfterFinally(wasAnalyzing) == FALSE

\* The form submits: handleAnalyze up to its await.  The form is rendered
\* while no report is displayed and its controls are disabled while
\* isLoading; it submits only what isValidGitHubUrl accepts.
HandleAnalyzeStart ==
  /\ Renders(reportsKind)
  /\ FormSubmits(currentReport, isAnalyzing)
  /\ Len(inflight) < MaxInflight
  /\ Len(reports) < MaxReports
  /\ \E url \in {u \in Urls : u.valid} :
       /\ isAnalyzing' = TRUE
       /\ error' = None
       /\ inflight' = Append(inflight, [url |-> url, value |-> reports,
                                        analyzedAt |-> clock])
  /\ lastOp' = Op("analyze", 0)
  /\ UNCHANGED <<reports, reportsKind, storage, writable, currentReport, clock>>
  /\ UNCHANGED <<proxyVars, pathVars, formVars>>

\* generateProductionReport resolves: handleAnalyze from its await on.
\* setReports is the setter of the render that started the call, and
\* applies the updater to that render's list.
HandleAnalyzeSettle ==
  /\ inflight # <<>>
  /\ \E status \in ReportStatuses :
       LET call == Head(inflight)
           report == Report(clock, call.url.text, status, call.analyzedAt)
           newValue == Prepend(report, call.value)
       IN /\ currentReport' = Some(report)
          /\ reports' = newValue
          /\ reportsKind' = "array"
          /\ storage' = Persisted(newValue, storage, writable)
  /\ inflight' = Tail(inflight)
  /\ isAnalyzing' = AfterFinally(isAnalyzing)
  /\ lastOp' = Op("settle", clock)
  /\ UNCHANGED <<writable, error, clock>>
  /\ UNCHANGED <<proxyVars, pathVars, formVars>>

\* A history entry is clicked.
HandleSelectReport ==
  /\ \E i \in 1..Len(reports) : currentReport' = Some(reports[i])
  /\ error' = None
  /\ lastOp' = Op("select", 0)
  /\ UNCHANGED <<reports, reportsKind, storage, writable, isAnalyzing, inflight,
               clock>>
  /\ UNCHANGED <<proxyVars, pathVars, formVars>>

\* The delete button of a history entry is clicked.
HandleDeleteReport ==
  /\ \E i \in 1..Len(reports) :
       LET reportId == reports[i].id
           newValue == DeleteFrom(reports, reportId)
       IN /\ reports' = newValue
          /\ reportsKind' = "array"
          /\ storage' = Persisted(newValue, storage, writable)
          /\ currentReport' = IF currentReport.def /\ currentReport.v.id = reportId
                              THEN None ELSE currentReport
          /\ lastOp' = Op("delete", reportId)
  /\ UNCHANGED <<writable, isAnalyzing, error, inflight, clock>>
  /\ UNCHANGED <<proxyVars, pathVars, formVars>>

\* The "new analysis" button, shown with a displayed report.
HandleNewAnalysis ==
  /\ Renders(reportsKind)
  /\ currentReport.def
  /\ currentReport' = None
  /\ error' = None
  /\ lastOp' = Op("new", 0)
  /\ UNCHANGED <<reports, reportsKind, storage, writable, isAnalyzing, inflight,
               clock>>
  /\ UNCHANGED <<proxyVars, pathVars, formVars>>

\* The export button of the displayed report: handleExport builds the
\* Markdown text from currentReport and hands it to the browser as a
\* download; it calls no setter.
ExportCurrent ==
  /\ Renders(reportsKind)
  /\ currentReport.def
  /\ lastOp' = Op("export", 0)
  /\ UNCHANGED <<reports, reportsKind, storage, writable, currentReport,
               isAnalyzing, error, inflight, clock>>
  /\ UNCHANGED <<proxyVars, pathVars, formVars>>

\* Time passes.
Tick ==
  /\ clock < MaxClock
  /\ clock' = clock + 1
  /\ UNCHANGED <<reports, reportsKind, storage, writable, currentReport,
               isAnalyzing, error, inflight, lastOp>>
  /\ UNCHANGED <<proxyVars, pathVars, formVars>>

\* ------------------------------------------------------------------------
\* Actions of the analysis form
\* ------------------------------------------------------------------------

\* The input's onChange, for one more atom typed at the end of the text or
\* the text cleared: setUrl(e.target.value); setError('').
OnChange ==
  /\ \/ formUrl' = <<>>
     \/ /\ Len(formUrl) < MaxUrlLen
        /\ \E a \in UrlAtoms : formUrl' = Append(formUrl, a)
  /\ formError' = <<>>
  /\ submitted' = None
  /\ formOp' = "change"
  /\ UNCHANGED <<proxyVars, appVars, pathVars>>

\* The form's onSubmit.
HandleSubmit ==
  /\ formError' = FormOutcome(formUrl).error
  /\ submitted' = FormOutcome(formUrl).submitted
  /\ formOp' = "submit"
  /\ UNCHANGED formUrl
  /\ UNCHANGED <<proxyVars, appVars, pathVars>>

\* ------------------------------------------------------------------------
\* Actions of one analysis, from the form to the exported file
\* ------------------------------------------------------------------------

\* No exchange yet.
NoFetch == [kind |-> "none", status |-> 0, parses |-> FALSE, json |-> Undefined]

\* handleAnalyze for a URL the form accepted, and the render that follows
\* its setState calls: the report is displayed and stored, or the catch
\* block shows the error's message.
AnalyzeOne ==
  /\ stage = "form"
  /\ \E gh \in GitHubOutcomes, px \in ProxyOutcomes :
       LET g == GenerateProductionReport("owner/repo", gh, px, clock, clock)
       IN /\ github' = gh
          /\ proxyReply' = px
          /\ generated' = IF g.ok THEN Some(g.value) ELSE None
          /\ shownError' = IF g.ok THEN None ELSE Some(g.message)
          /\ view' = IF g.ok THEN Some(RenderReportView(g.value)) ELSE None
  /\ stage' = "displayed"
  /\ exportFile' = None
  /\ UNCHANGED <<proxyVars, appVars, formVars>>

\* The export button of the rendered ReportView is clicked.
ExportDisplayed ==
  /\ stage = "displayed"
  /\ generated.def
  /\ view.def
  /\ view.v.ok
  /\ exportFile' = Some(HandleExport(generated.v))
  /\ stage' = "exported"
  /\ UNCHANGED <<github, proxyReply, generated, shownError, view>>
  /\ UNCHANGED <<proxyVars, appVars, formVars>>

\* "New analysis", or the page loaded again after a render that threw.
BackToForm ==
  /\ stage # "form"
  /\ stage' = "form"
  /\ github' = [info |-> NoFetch, contents |-> NoFetch]
  /\ proxyReply' = NoFetch
  /\ generated' = None
  /\ shownError' = None
  /\ view' = None
  /\ exportFile' = None
  /\ UNCHANGED <<proxyVars, appVars, formVars>>

\* ------------------------------------------------------------------------
\* Specifications
\* ------------------------------------------------------------------------

ProxyIdle ==
  /\ handler = "idle"
  /\ request = NoRequest
  /\ reply = NoReply
  /\ sent = <<>>
  /\ response = NoResponse
  /\ log = <<>>

AppInit ==
  /\ storage \in {None, Some(JSONStringify(<<>>))} \cup {Some(t) : t \in ForeignItems}
  /\ writable \in BOOLEAN
  /\ reports = InitialValue(storage).items
  /\ reportsKind = InitialValue(storage).kind
  /\ currentReport = None
  /\ isAnalyzing = FALSE
  /\ error = None
  /\ inflight = <<>>
  /\ clock = 0
  /\ lastOp = [name |-> "mount", id |-> 0, before |-> <<>>]

\* The proxy is studied with the App's page not open.
AppClosed ==
  /\ storage = None
  /\ writable = TRUE
  /\ reports = InitialValue(storage).items
  /\ reportsKind = InitialValue(storage).kind
  /\ currentReport = None
  /\ isAnalyzing = FALSE
  /\ error = None
  /\ inflight = <<>>
  /\ clock = 0
  /\ lastOp = [name |-> "mount", id |-> 0, before |-> <<>>]

\* No analysis is being followed.
PathIdle ==
  /\ stage = "form"
  /\ github = [info |-> NoFetch, contents |-> NoFetch]
  /\ proxyReply = NoFetch
  /\ generated = None
  /\ shownError = None
  /\ view = None
  /\ exportFile = None

\* The form as it is mounted: useState('') twice.
FormIdle ==
  /\ formUrl = <<>>
  /\ formError = <<>>
  /\ submitted = None
  /\ formOp = "idle"

Init == env \in Envs /\ ProxyIdle /\ AppClosed /\ PathIdle /\ FormIdle

\* The environment the App's specification keeps the proxy in.
AppEnv ==
  [GEMINI_API_KEY |-> Some(ApiKeyValue), VITE_GEMINI_API_KEY |-> None,
   GOOGLE_AI_API_KEY |-> None, NODE_ENV |-> "production"]

InitApp == env = AppEnv /\ ProxyIdle /\ AppInit /\ PathIdle /\ FormIdle

InitReport == env = AppEnv /\ ProxyIdle /\ AppClosed /\ PathIdle /\ FormIdle

InitForm == InitReport

NextProxy ==
  \/ AnalyzeIndex
  \/ IncidentIndex
  \/ AnalyzeLegacy
  \/ IncidentLegacy
  \/ Llm
  \/ AnalyzeFallback
  \/ IncidentFallback
  \/ Genai
  \/ DebugEnv
  \/ Listen
  \/ CloseConnection

NextApp ==
  \/ Mount
  \/ HandleAnalyzeStart
  \/ HandleAnalyzeSettle
  \/ HandleSelectReport
  \/ HandleDeleteReport
  \/ HandleNewAnalysis
  \/ ExportCurrent
  \/ Tick

\* The proxy serving requests.
Spec == Init /\ [][NextProxy]_vars

\* The App in the browser.
SpecApp == InitApp /\ [][NextApp]_vars

\* The App when every call to generateProductionReport settles: the
\* promise handleAnalyze awaits is resolved or rejected in the end.
SpecAppFair == SpecApp /\ WF_vars(HandleAnalyzeSettle)

NextReport ==
  \/ AnalyzeOne
  \/ ExportDisplayed
  \/ BackToForm

\* One report from its analysis to its display and export.
SpecReport == InitReport /\ [][NextReport]_vars

NextForm ==
  \/ OnChange
  \/ HandleSubmit

\* The analysis form: texts typed and submitted.
SpecForm == InitForm /\ [][NextForm]_vars

\* ------------------------------------------------------------------------
\* Properties of the proxy
\* ------------------------------------------------------------------------

AnalyzeEndpoints ==
  {"index:/api/analyze", "legacy:/api/analyze", "fallback:/api/analyze"}

IncidentEndpoints ==
  {"index:/api/incident-analyze", "legacy:/api/analyze-incident",
   "fallback:/api/analyze-incident"}

\* The endpoints of the Express server files that invoke the model.
ModelEndpoints == AnalyzeEndpoints \cup IncidentEndpoints \cup {"fallback:/api/llm"}

\* Every entry point that calls the provider.
ProxyEndpoints == ModelEndpoints \cup {"serverless:/api/genai"}

\* No variable of the environment holds a key.
NoKeyConfigured ==
  /\ Falsy(env.GEMINI_API_KEY)
  /\ Falsy(env.VITE_GEMINI_API_KEY)
  /\ Falsy(env.GOOGLE_AI_API_KEY)

\* The key the handler at hand reads.
HandlerKey ==
  IF handler \in {"fallback:/api/llm", "fallback:/api/analyze",
                  "fallback:/api/analyze-incident"}
  THEN GetApiKey(env)
  ELSE IF handler = "serverless:/api/genai" THEN API_KEY(env)
  ELSE GENAI_API_KEY(env)

HasOwnerAndRepo == request.hasBody /\ ~Falsy(request.owner) /\ ~Falsy(request.repo)

\* The request is one the endpoint's client sends: the fields the handler
\* requires, and a bag with every member analyzeRepository fills in.
ValidRequest ==
  /\ request.method = "POST"
  /\ request.hasBody
  /\ handler \in AnalyzeEndpoints \cup {"index:/api/incident-analyze"}
       => HasOwnerAndRepo /\ FullBag(request.analysisData)
  /\ handler \in {"legacy:/api/analyze-incident", "fallback:/api/analyze-incident"}
       => ~Falsy(request.debugData)
  /\ handler \in {"fallback:/api/llm", "serverless:/api/genai"}
       => ~Falsy(request.prompt)

ProviderCalled == sent # <<>>

\* C1: on every proxy endpoint that invokes the model (POST /api/analyze,
\* /api/analyze-incident, /api/incident-analyze) an otherwise valid request
\* received while no API key is configured is answered with HTTP 500 and no
\* request is sent to the provider.
C1_MissingKeyIs500AndNoCall ==
  (/\ handler \in AnalyzeEndpoints \cup IncidentEndpoints
   /\ ValidRequest
   /\ NoKeyConfigured)
    => (response.status = 500 /\ ~ProviderCalled)

\* C2: POST /api/analyze answers HTTP 400 for every request in which owner
\* or repo is missing or empty, a request without any body included, and
\* sends no request to the provider for it.
C2_MissingOwnerOrRepoIs400 ==
  (handler \in AnalyzeEndpoints /\ ~HasOwnerAndRepo)
    => (response.status = 400 /\ ~ProviderCalled)

\* The provider answers 2xx with a candidate text that is a JSON report.
RepliedJsonReport ==
  /\ reply.kind = "http"
  /\ reply.status = 200
  /\ reply.bodyOk
  /\ reply.text.def
  /\ IsObjectText(reply.text.v)

\* C3: for every request to POST /api/analyze with non-empty owner and repo,
\* a configured key and any analysisData bag (absent, empty or partial),
\* when the provider answers 2xx with candidate text that is a valid JSON
\* report, the proxy responds HTTP 200 with {success: true, data: that JSON
\* parsed, meta}.
C3_JsonReportIsSuccess ==
  (/\ handler \in {"index:/api/analyze", "legacy:/api/analyze"}
   /\ HasOwnerAndRepo
   /\ ~Falsy(HandlerKey)
   /\ RepliedJsonReport)
    => (/\ response.status = 200
        /\ response.keys = {"success", "data", "meta"}
        /\ response.data.kind = "object"
        /\ response.data.members = ObjectMembers(reply.text.v))

\* C4: when the provider answers HTTP 429 to the call made by POST
\* /api/analyze, the proxy responds HTTP 500 with details.type equal to
\* AI_SERVICE_ERROR and with the provider's status and error text in
\* details.message.
C4_Upstream429IsAiServiceError ==
  (/\ handler \in {"index:/api/analyze", "legacy:/api/analyze"}
   /\ ProviderCalled
   /\ reply.kind = "http"
   /\ reply.status = 429)
    => (/\ response.status = 500
        /\ "details" \in response.keys
        /\ response.detailsType = "AI_SERVICE_ERROR"
        /\ Includes(response.detailsMessage, DecimalText(429))
        /\ reply.bodyOk => Includes(response.detailsMessage, <<reply.errMsg>>))

\* C5: every failure response of POST /api/analyze, HTTP 400 (validation) or
\* HTTP 500 (configuration, upstream or parse failure), has the envelope
\* {error, details: {message, type}, meta}.
C5_FailureEnvelope ==
  (/\ handler \in {"index:/api/analyze", "legacy:/api/analyze"}
   /\ response.status \in {400, 500})
    => (/\ response.keys = {"error", "details", "meta"}
        /\ response.detailsMessage # <<>>
        /\ response.detailsType # "")

\* The texts a response body holds.
ResponseTexts(r) ==
  {r.error, r.detailsMessage, r.message, r.data.raw, r.data.error}
    \cup (IF r.text.def THEN {r.text.v} ELSE {})
    \cup {r.data.members}

\* C6: whenever the model's text cannot be parsed as JSON, the outcome the
\* proxy hands to its caller is a format error that carries the raw model
\* text; on no endpoint and in no variant is the raw text dropped from the
\* response.
C6_ParseFailureCarriesRawText ==
  (/\ handler \in AnalyzeEndpoints \cup IncidentEndpoints
   /\ ProviderCalled
   /\ reply.kind = "http" /\ reply.status = 200 /\ reply.bodyOk
   /\ reply.text = Some(Prose))
    => \E t \in ResponseTexts(response) : Includes(t, Prose)

\* C7: when the provider answers 2xx but the reply contains no candidate
\* text, every model-invoking endpoint fails the request with an
\* empty-response error; none of them returns a success response.
C7_NoCandidateTextFails ==
  (/\ handler \in ProxyEndpoints
   /\ ProviderCalled
   /\ reply.kind = "http" /\ reply.status = 200 /\ reply.bodyOk
   /\ Falsy(reply.text))
    => (/\ response.status >= 400
        /\ "success" \notin response.keys)

\* The messages the server words for the user, in Arabic.
LocalizedMessages == {AnalyzeFailedLocalized}

ProviderFailed == reply.kind = "network" \/ (reply.kind = "http" /\ reply.status # 200)

\* C8: for every provider failure on any proxy endpoint (the key being
\* configured, so that the call is a genuine one), the response sent
\* to the client has a localized message as its top-level error; the
\* provider's own error body or error string is never returned as the
\* response's error.
C8_ProviderFailureIsLocalized ==
  (/\ handler \in ProxyEndpoints
   /\ ~Falsy(HandlerKey)
   /\ ProviderCalled
   /\ ProviderFailed)
    => (/\ "error" \in response.keys
        /\ response.error \in LocalizedMessages)

HasSecret(t) == \E i \in 1..Len(t) : t[i] \in SecretAtoms

\* C9: no response body and no log line produced by the server code
\* contains the API key or any part of its value, on the success path and on
\* every failure path.
C9_KeyNeverInResponseOrLog ==
  /\ \A i \in 1..Len(log) : ~HasSecret(log[i])
  /\ \A t \in ResponseTexts(response) : ~HasSecret(t)

\* ------------------------------------------------------------------------
\* Properties of the App
\* ------------------------------------------------------------------------

\* f maps the positions of after into positions of before, in increasing
\* order, each onto an equal report.
IsEmbedding(f, before, after) ==
  /\ \A i \in DOMAIN after : before[f[i]] = after[i]
  /\ \A i, j \in DOMAIN after : i < j => f[i] < f[j]

\* after is before without the reports whose id is reportId: none with that
\* id is left, and the others are all there, unmodified, in the same order.
IsDeletionOf(before, after, reportId) ==
  /\ \A i \in DOMAIN after : after[i].id # reportId
  /\ \E f \in [DOMAIN after -> DOMAIN before] :
       /\ IsEmbedding(f, before, after)
       /\ \A k \in DOMAIN before :
            before[k].id # reportId => \E i \in DOMAIN after : f[i] = k

\* C10: deleting a report by id removes the report with that id and nothing
\* else: every report with another id stays in the list, unmodified and in
\* the same order as before, and the stored list follows when the storage
\* accepts the write.
C10_DeleteRemovesOnlyThatReport ==
  lastOp.name = "delete"
    => (/\ IsDeletionOf(lastOp.before, reports, lastOp.id)
        /\ writable => storage = Some(JSONStringify(reports)))

\* A report in the middle of a list of three has been deleted and the two
\* around it are left.
C10_DeletedFromTheMiddle ==
  /\ lastOp.name = "delete"
  /\ Len(lastOp.before) = 3
  /\ lastOp.before[2].id = lastOp.id
  /\ lastOp.before[1].id # lastOp.id
  /\ lastOp.before[3].id # lastOp.id
  /\ reports = <<lastOp.before[1], lastOp.before[3]>>

\* The list is ordered by creation time, newest first.
NewestFirst(list) ==
  \A i, j \in DOMAIN list : i < j => list[i].createdAt >= list[j].createdAt

\* C11: every completed analysis puts its report at the front of the list
\* (and of the stored item when the storage accepts the write), and after
\* any sequence of analyses and deletions the list is ordered by creation
\* time, newest first.
C11_NewReportFirstAndNewestFirst ==
  /\ lastOp.name = "settle"
       => (/\ reports # <<>>
           /\ currentReport = Some(Head(reports))
           /\ Head(reports).id = lastOp.id
           /\ writable => storage = Some(JSONStringify(reports)))
  /\ NewestFirst(reports)
  /\ NewestFirst(InitialValue(storage).items)

\* An analysis has completed on top of two older reports.
C11_ThirdReportOnTop ==
  /\ lastOp.name = "settle"
  /\ Len(reports) = 3
  /\ reports[1].createdAt > reports[2].createdAt
  /\ reports[2].createdAt > reports[3].createdAt

\* The setter has just been called with the list now in reports.
SetterCalled == lastOp.name \in {"settle", "delete"}

\* What a fresh initialisation of the store would yield now.
ReadBack == InitialValue(storage)

\* C12 (as stated): a report list written through the store's setter and
\* then read back by a fresh initialisation of the store under the same key
\* is deep-equal to the list that was written.
C12_SetterThenInitRoundTrip ==
  SetterCalled => ReadBack = JsonValue("array", reports)

\* C12 (amended): when localStorage accepts the write, the list handed to
\* the setter and then read back by a fresh initialisation is deep-equal to
\* the list that was written.
C12_RoundTripWhenWriteSucceeds ==
  (SetterCalled /\ writable) => ReadBack = JsonValue("array", reports)

\* Two reports that differ have been written and the storage accepted them.
C12_TwoReportsWritten ==
  /\ SetterCalled
  /\ writable
  /\ Len(reports) >= 2
  /\ reports[1] # reports[2]
  /\ storage = Some(JSONStringify(reports))

\* The stored value is missing or corrupt: absent, not parseable as JSON, or
\* JSON that is no array of reports.
MissingOrCorrupt == ~storage.def \/ storage.v \in ForeignItems

\* C13: initialising the report store never throws and yields the empty
\* list whenever the stored value is missing or corrupt.
C13_CorruptItemYieldsEmptyList ==
  (lastOp.name = "mount" /\ MissingOrCorrupt)
    => (reportsKind = "array" /\ reports = <<>>)

\* C14: at most one analysis is outstanding at any time: from the moment a
\* submission starts until it settles the form's controls are disabled
\* (isAnalyzing) and no second analysis is started, whatever the user does
\* in between.
C14_OneAnalysisOutstanding ==
  /\ Len(inflight) <= 1
  /\ inflight # <<>> => (isAnalyzing /\ ~FormSubmits(currentReport, isAnalyzing))

\* With an analysis outstanding the user has opened a history entry and
\* come back to the form with "new analysis".
C14_BackAtTheFormWhileOutstanding ==
  /\ Len(inflight) = 1
  /\ lastOp.name = "new"
  /\ ~currentReport.def
  /\ reports # <<>>

\* ------------------------------------------------------------------------
\* Properties of one analysis and its report
\* ------------------------------------------------------------------------

\* The call to the proxy failed: the network, a non-2xx status, or a
\* payload that is empty or not JSON.
ProxyCallFailed ==
  \/ proxyReply.kind = "network"
  \/ proxyReply.status < 200
  \/ proxyReply.status > 299
  \/ ~proxyReply.parses
  \/ proxyReply.json = JNull

\* The fallback report: status unknown, no domains, the fixed error summary.
IsFallback(r) ==
  /\ r.overallStatus = JStr("unknown")
  /\ r.domains = JArray(<<>>)
  /\ r.summary = ErrorSummaryText

\* C15: generateProductionReport never rejects: for every combination of
\* GitHub and proxy outcomes handleAnalyze gets a report and shows no error,
\* and whenever the proxy call fails the report is the fallback one.
C15_AlwaysAReport ==
  stage # "form"
    => (/\ generated.def
        /\ shownError = None
        /\ ProxyCallFailed => IsFallback(generated.v))

\* GitHub answered 404 and the proxy 500, and the fallback report is
\* displayed.
C15_FallbackAfterBothFail ==
  /\ stage = "displayed"
  /\ github.info.status = 404
  /\ proxyReply.status = 500
  /\ generated.def
  /\ IsFallback(generated.v)

\* C16: when GitHub answers HTTP 403 to the repository lookup of an
\* analysis, the user is shown the translated rate-limit message as the
\* error of that analysis.
C16_RateLimitIsShown ==
  (stage # "form" /\ github.info.kind = "http" /\ github.info.status = 403)
    => shownError = Some(RateLimitMessage)

\* The status is one of ready, conditional, not-ready, unknown.
InEnumeration(status) == \E name \in ReadinessStatuses : status = JStr(name)

\* The members of domains that are objects.
DomainObjects(r) ==
  IF r.domains.kind = "array"
  THEN {i \in 1..Len(r.domains.items) : r.domains.items[i].kind = "object"}
  ELSE {}

\* C17: for every status value outside {ready, conditional, not-ready,
\* unknown}, every rendering of a status shows the 'unknown' label: the
\* StatusBadge component, and the overall-status and domain-status lines of
\* the exported Markdown.
C17_OutsideEnumerationShowsUnknown ==
  /\ (generated.def /\ view.def /\ ~InEnumeration(generated.v.overallStatus))
       => (view.v.badgeOk /\ view.v.badge = StatusLabel("unknown"))
  /\ (generated.def /\ exportFile.def /\ exportFile.v.ok)
       => (/\ ~InEnumeration(generated.v.overallStatus)
                => exportFile.v.overall = StatusLabel("unknown")
           /\ \A i \in DomainObjects(generated.v) :
                ~InEnumeration(Member(generated.v.domains.items[i], "status"))
                  => exportFile.v.domainLabels[i] = StatusLabel("unknown"))

\* C18: every report that enters the stored list has overallStatus in
\* {ready, conditional, not-ready, unknown}, and each of its domains has
\* status in the same set.
C18_StatusesInEnumeration ==
  generated.def
    => (/\ InEnumeration(generated.v.overallStatus)
        /\ \A i \in DomainObjects(generated.v) :
             InEnumeration(Member(generated.v.domains.items[i], "status")))

\* C19: rendering a report in ReportView is total: whatever JSON values its
\* domains, criticalIssues, recommendations and each domain's findings and
\* recommendations are, rendering completes without throwing, and a missing
\* optional array is shown as empty.
C19_ReportViewIsTotal ==
  (generated.def /\ view.def /\ InEnumeration(generated.v.overallStatus))
    => (/\ view.v.ok
        /\ generated.v.criticalIssues = JArray(<<>>) => view.v.criticalIssues = 0
        /\ generated.v.domains = JArray(<<>>) => view.v.domains = 0)

\* C20: exporting the displayed report to Markdown never throws: whatever
\* JSON values the report's lists are, handleExport completes and produces
\* the file, with each missing or empty section as its placeholder text.
C20_ExportIsTotal ==
  (stage = "exported" /\ exportFile.def)
    => (/\ exportFile.v.ok
        /\ generated.v.criticalIssues = JArray(<<>>)
             => exportFile.v.criticalIssues = "placeholder"
        /\ generated.v.domains = JArray(<<>>) => exportFile.v.domains = "placeholder")

\* ------------------------------------------------------------------------
\* Properties of the list under interleaved handlers
\* ------------------------------------------------------------------------

\* C22: a deletion performed while an analysis is in flight is permanent:
\* when the analysis completes, its report is prepended to the list as it
\* is at completion time, in memory and in the stored item.
C22_DeletionDuringAnalysisIsPermanent ==
  lastOp.name = "settle"
    => /\ Tail(reports) = lastOp.before
       /\ writable => InitialValue(storage).items = <<Head(reports)>> \o lastOp.before

\* The reports a handler can find: those of the list and those of the
\* lists the calls in flight hold.
EntriesAtHand ==
  {reports[i] : i \in DOMAIN reports}
    \cup UNION {{inflight[k].value[i] : i \in DOMAIN inflight[k].value} :
                k \in DOMAIN inflight}

\* The reports of the stored item.
StoredEntries(item) ==
  {InitialValue(item).items[i] : i \in DOMAIN InitialValue(item).items}

\* C23: reports are immutable once stored.  Selecting a report, starting a
\* new analysis and exporting leave the list and the stored item as they
\* are; a deletion leaves the other entries as they were, in their order; a
\* completed analysis puts its report in front of entries that are each
\* equal, field by field, to an entry there was before; and the stored item
\* holds no entry that is not the new report or one there was before.
C23_ReportsAreImmutable ==
  [][/\ lastOp'.name \in {"select", "new", "export", "analyze"}
          => (reports' = reports /\ storage' = storage)
     /\ lastOp'.name = "delete"
          => \E f \in [DOMAIN reports' -> DOMAIN reports] :
               IsEmbedding(f, reports, reports')
     /\ lastOp'.name = "settle"
          => \A i \in 2..Len(reports') : reports'[i] \in EntriesAtHand
     /\ lastOp'.name \in {"delete", "settle"}
          => StoredEntries(storage')
               \subseteq (EntriesAtHand \cup StoredEntries(storage)
                             \cup {reports'[i] : i \in DOMAIN reports' \cap {1}})]_vars

\* An analysis has completed and two older reports are behind its report.
C23_TwoOlderReportsKept ==
  /\ lastOp.name = "settle"
  /\ Len(reports) = 3
  /\ reports[2] # reports[3]
  /\ storage = Some(JSONStringify(reports))

\* The displayed report is absent or has the id of a report of the list.
DisplayedIsListed ==
  currentReport.def => \E i \in DOMAIN reports : reports[i].id = currentReport.v.id

\* The step is a click on the delete button of an entry that is not the
\* displayed report.
DeletesAnotherEntry ==
  /\ lastOp'.name = "delete"
  /\ reports' # reports
  /\ currentReport.def
  /\ \E i \in DOMAIN reports :
       reports[i].id = lastOp'.id /\ reports[i] # currentReport.v

\* C29: in every reachable state of the App the displayed report is absent
\* or has the id of a report in the list, and deleting a report other than
\* the displayed one leaves the displayed report unchanged.
C29_DisplayedStaysListed ==
  [](DisplayedIsListed) /\ [][DeletesAnotherEntry => currentReport' = currentReport]_vars

\* C30: no two reports of the list share an id, in memory or in the stored
\* item.
C30_IdsAreUnique ==
  /\ \A i, j \in DOMAIN reports : i # j => reports[i].id # reports[j].id
  /\ LET stored == InitialValue(storage).items
     IN \A i, j \in DOMAIN stored : i # j => stored[i].id # stored[j].id

\* The report at the head of the list is displayed, and it is in the stored
\* item when the storage accepts the write.
ReportDisplayedAndStored ==
  /\ currentReport.def
  /\ reports # <<>>
  /\ Head(reports) = currentReport.v
  /\ writable => storage = Some(JSONStringify(reports))

\* C28: when every network call settles, every started analysis ends:
\* isAnalyzing returns to false, and at that moment the new report is
\* displayed and stored or an error message is set.  A reload of the page
\* ends the analysis with the App that started it.
C28_AnalysisEnds ==
  /\ isAnalyzing ~> ~isAnalyzing
  /\ [][(isAnalyzing /\ ~isAnalyzing' /\ lastOp'.name # "mount")
         => (ReportDisplayedAndStored' \/ error'.def)]_vars

\* An analysis has ended on top of an older report, in a browser whose
\* storage refuses the write.
C28_EndedWithItsReport ==
  /\ lastOp.name = "settle"
  /\ ~isAnalyzing
  /\ ~writable
  /\ Len(reports) = 2
  /\ currentReport = Some(Head(reports))

\* ------------------------------------------------------------------------
\* Properties of the server entry points
\* ------------------------------------------------------------------------

\* C27: a key supplied under any one of the documented variable names is
\* found by every server entry point: for any environment the Express
\* proxy, its fallback variant and the serverless handler all treat the key
\* as configured or all report it missing.
C27_EveryEntryPointFindsTheKey ==
  /\ Falsy(GENAI_API_KEY(env)) <=> Falsy(API_KEY(env))
  /\ Falsy(GetApiKey(env)) <=> Falsy(API_KEY(env))
  /\ ~NoKeyConfigured => ~Falsy(GENAI_API_KEY(env))

\* The atoms of t behind its first atom a.
Behind(t, a) == SubSeq(t, IndexOf(t, a) + 1, Len(t))

\* The repository data a prompt embeds: the serialised analysisData of
\* createSafePrompt, the file structure of the current buildAnalysisPrompt,
\* the languages of the earlier one.
EmbeddedData(prompt) ==
  IF handler = "fallback:/api/analyze" THEN Behind(prompt, "Repository Data Summary:")
  ELSE IF handler = "index:/api/analyze" THEN Behind(prompt, "files:")
  ELSE Behind(prompt, "languages:")

\* The same data before anything was cut from it.
SerialisedData(prompt) ==
  IF handler = "fallback:/api/analyze" THEN StringifyBag(request.analysisData)
  ELSE EmbeddedData(prompt)

\* C26: the repository data embedded in an outbound analysis prompt never
\* exceeds MAX_CHARS characters plus the truncation marker, and the marker
\* is appended exactly when the serialised data was longer than MAX_CHARS.
C26_EmbeddedDataIsCapped ==
  \A i \in DOMAIN sent :
    handler \in AnalyzeEndpoints
      => LET d == EmbeddedData(sent[i].prompt)
             marked == d # <<>> /\ d[Len(d)] = TruncationMarker
         IN /\ Len(d) <= MAX_CHARS + 1
            /\ marked <=> Len(SerialisedData(sent[i].prompt)) > MAX_CHARS

\* The same for the prompts of createSafePrompt alone.
SafePromptIsCapped ==
  handler = "fallback:/api/analyze" => C26_EmbeddedDataIsCapped

\* The provider answers 2xx with the JSON report wrapped in a Markdown code
\* fence: an opening marker with or without json, a closing marker, and
\* white space around the report.
RepliedFencedJson ==
  /\ reply.kind = "http"
  /\ reply.status = 200
  /\ reply.bodyOk
  /\ reply.text \in {Some(FencedJson), Some(BareFencedJson)}

\* C24: sanitisation is transparent for fenced JSON: sanitising the fenced
\* text and parsing it yields the value that parsing the JSON text itself
\* yields, so the response carries that value.
C24_FencedJsonIsTransparent ==
  (/\ handler \in AnalyzeEndpoints
   /\ ProviderCalled
   /\ RepliedFencedJson)
    => (/\ response.status = 200
        /\ response.data.kind = "object"
        /\ JSONParse(PlainJson, 0).ok
        /\ response.data.members = JSONParse(PlainJson, 0).members)

\* ------------------------------------------------------------------------
\* Properties of the texts of a report's lists
\* ------------------------------------------------------------------------

\* The items of the lists of texts ReportView has shown.
ShownItems ==
  {EnsureArray(generated.v.criticalIssues)[i] :
     i \in 1..Len(EnsureArray(generated.v.criticalIssues))}
    \cup {EnsureArray(generated.v.recommendations)[i] :
            i \in 1..Len(EnsureArray(generated.v.recommendations))}

\* C25: for every JSON value given as a list item getTextContent returns a
\* string: the item itself when it is a string; for an object its
\* description, else its text, else its JSON serialisation; and a string
\* form for any other value.
C25_GetTextContentIsAString ==
  (generated.def /\ view.def)
    => \A item \in ShownItems :
         /\ GetTextContent(item).kind = "string"
         /\ item.kind = "string" => GetTextContent(item) = item
         /\ (item.kind = "object" /\ Truthy(Member(item, "description")))
              => GetTextContent(item) = Member(item, "description")
         /\ (item.kind = "object" /\ ~Truthy(Member(item, "description"))
               /\ Truthy(Member(item, "text")))
              => GetTextContent(item) = Member(item, "text")

\* ------------------------------------------------------------------------
\* Properties of the analysis form
\* ------------------------------------------------------------------------

\* C21: the analysis form calls onSubmit only when the entered text is
\* non-blank and parses as a GitHub repository reference, and then passes
\* the trimmed text; for blank or invalid text it sets a validation message
\* and does not call onSubmit.
C21_SubmitsOnlyValidTrimmedText ==
  formOp = "submit"
    => /\ submitted.def
            <=> (Trim(formUrl) # <<>> /\ ParseGitHubUrl(Trim(formUrl)).ok)
       /\ submitted.def
            => /\ submitted.v = Trim(formUrl)
               /\ formError = <<>>
               /\ ParseGitHubUrl(submitted.v).owner # <<>>
               /\ ParseGitHubUrl(submitted.v).repo # <<>>
       /\ ~submitted.def => formError # <<>>

\* A reference typed with white space around it has been submitted.
C21_PaddedReferenceSubmitted ==
  /\ formOp = "submit"
  /\ formUrl = <<" ", "github.com", "/", "a", "/", "a">>
  /\ submitted = Some(<<"github.com", "/", "a", "/", "a">>)

\* A text that is no reference has been refused.
C21_InvalidTextRefused ==
  /\ formOp = "submit"
  /\ formUrl = <<"a", "/", ".git">>
  /\ ~submitted.def
  /\ formError = InvalidUrlMessage


====
